---------------------------- MODULE Spec2Model ----------------------------
(***************************************************************************)
(* A model of torch/csrc/profiler/collection.cpp: the profiler's event     *)
(* collection (per-thread subqueues, correlation ids, the subqueue         *)
(* directory with its thread-local cache) and the post-processing done by  *)
(* RecordQueue::getRecords (external-trace merge, stable sort, unique      *)
(* tensor ids, tree construction).                                         *)
(*                                                                         *)
(* One module holds several specifications over the same variables; each   *)
(* specification drives one part of the program and leaves the variables   *)
(* of the other parts at their initial values.                             *)
(***************************************************************************)
EXTENDS Integers, Sequences, FiniteSets, TLC

VARIABLES
    \* ---- correlation ids (EventBlock / OpList) ----
    counter_,          \* static std::atomic<uint64_t> counter_ of EventBlock()
    id_start_,         \* per thread: id_start_ of buffer_last_ (0: no block yet)
    next_,             \* per thread: next_ - buffer_last_->data()
    op_pc,             \* per thread: position inside OpList::emplace_back
    corr_ids,          \* per thread: the correlation ids emplace_back returned
    \* ---- subqueue directory (RecordQueue / getSubqueue) ----
    queue_id_,         \* std::atomic<uint32_t> queue_id_
    live,              \* per RecordQueue object: constructed and not destroyed
    id_,               \* per RecordQueue object: id_
    sub_queues_,       \* per RecordQueue object: tid -> ThreadLocalSubqueue*
    sub_queue_mutex_,  \* per RecordQueue object: the thread holding the mutex, or 0
    sub_queue_cache_,  \* per thread: the thread_local SubQueueThreadCache
    q_pc,              \* per thread: position inside getSubqueue
    q_this,            \* per thread: the RecordQueue getSubqueue runs on
    q_ret,             \* per thread: what the last getSubqueue call returned
    q_first,           \* per RecordQueue object, per tid: the first subqueue returned
    q_made,            \* per RecordQueue object, per tid: ThreadLocalSubqueue constructions
    \* ---- getRecords: external-trace merge, sort, build_tree ----
    results,           \* the Result objects, by their place in the drained list
    out,               \* the vector `out`: the Results in their current order
    kineto_tid,        \* the id of the thread running getRecords
    stacks,            \* build_tree: tid -> open frame (0: no entry)
    end_events_,       \* build_tree: the priority queue of pending ends
    t_i,               \* build_tree: index of the next event of the replay loop
    t_pc,              \* position inside getRecords
    t_err,             \* the TORCH_INTERNAL_ASSERT (or at()) that ended getRecords, or ""
    t_soft,            \* a SOFT_ASSERT of Result::endTimeNS failed (a warning)
    \* ---- calculate_unique_tensor_ids ----
    sorted_results,    \* the events given to calculate_unique_tensor_ids
    tensors,           \* the vector of TensorStoragePair (id_ref_ as the event's index)
    current_id,        \* step 1: the next storage id; step 3: the next final id
    live_storage,      \* step 1: data pointer -> storage id of the live storage
    tensor_set,        \* step 1: the storage ids that operation inputs refer to
    same_group_set,    \* step 2: the pairs of storage ids of one TensorImpl
    unique_pairs,      \* step 3: same_group_set, sorted
    id_map,            \* step 3: storage id -> final id
    ids,               \* per event: the TensorID written back (NoId: none)
    storage_ids,       \* per event: the storage id lookup gave it (NoId: none)
    u_i,               \* index of the loop calculate_unique_tensor_ids is in
    u_pc,              \* position inside calculate_unique_tensor_ids
    u_err,             \* the failed id_map.at(), or ""
    \* ---- addKinetoEvents: TransferEvents ----
    use_rocm,          \* the build defines USE_ROCM
    t_warn,            \* the warnings TransferEvents has issued
    trace_activities_, \* the activities of the external trace
    kineto_events_,    \* activity (its place in trace_activities_) -> Result
    kineto_activity_,  \* per Result: the activity reassociate stored in it (0: none)
    \* ---- begin_op, InputOutputEncoder, TorchOpStorage::materialize ----
    config_,           \* the subqueue's ProfilerConfig flags
    torch_ops_,        \* the subqueue's TorchOpStorage
    calls,             \* history: the RecordFunctions begin_op was called with
    ops_out,           \* the operation events materialize appended to out
    ops_pc,            \* position of the subqueue (collect, done) or encoder (push, decode)
    pushed,            \* history: the argument lists pushed to the encoder
    getter_it,         \* the iterators captured by the input getter
    decoded            \* the Inputs the getter's calls returned

corr_vars  == <<counter_, id_start_, next_, op_pc, corr_ids>>
queue_vars == <<queue_id_, live, id_, sub_queues_, sub_queue_mutex_,
                sub_queue_cache_, q_pc, q_this, q_ret, q_first, q_made>>
tree_vars  == <<results, out, kineto_tid, stacks, end_events_, t_i, t_pc, t_err,
                t_soft>>
tensor_vars == <<sorted_results, tensors, current_id, live_storage, tensor_set,
                 same_group_set, unique_pairs, id_map, ids, storage_ids, u_i, u_pc,
                 u_err>>
merge_vars == <<use_rocm, t_warn, trace_activities_, kineto_events_, kineto_activity_>>
ops_vars == <<config_, torch_ops_, calls, ops_out, ops_pc, pushed, getter_it, decoded>>
vars == <<corr_vars, queue_vars, tree_vars, tensor_vars, merge_vars, ops_vars>>

(***************************************************************************)
(* Bounds of the model.                                                    *)
(***************************************************************************)
CorrThreads == 3     \* threads appending to their own subqueue
ChunkSize == 2       \* events per EventBlock (the template parameter, scaled down)
MaxOps == 3          \* begin_op calls per thread
QueueThreads == 2    \* threads calling getSubqueue
QueueSlots == 2      \* RecordQueue objects alive at the same time
MaxQueues == 2       \* RecordQueue constructions in one run
QueueAddrs == 4      \* heap addresses a ThreadLocalSubqueue can be allocated at
TreeThreads == 2     \* threads whose events getRecords drains
TreeEvents == 3      \* events in the drained list
MaxTime == 2         \* start and end times are 0, 1000, ..., 1000*MaxTime
ExtraNestTimes == 0  \* time points after those of the spec's nesting example
TensorImpls == 2     \* TensorImpl addresses of operation inputs
TensorAddrs == 3     \* storage data addresses of operation inputs
OpSeqLen == 4        \* events in a sequence of operation inputs only
ReuseSeqLen == 5     \* events in a sequence that reuses one address
MergeResults == 2    \* events handed to addKinetoEvents
MergeActivities == 3 \* activities of the external trace
EncArgs == 2         \* arguments of one pushed operation
EncPushes == 2       \* operations pushed to one encoder
EncDim == 1          \* dimensions of a tensor argument
OpCalls == 3         \* begin_op calls on one subqueue

(***************************************************************************)
(* Program constants.                                                      *)
(***************************************************************************)
\* The counters are a uint64_t (counter_) and a uint32_t (queue_id_); the bounds
\* keep them far below their widths, so they are modelled as naturals.
NULL == 0

(***************************************************************************)
(* ---------------- Correlation ids: EventBlock and OpList --------------- *)
(***************************************************************************)
CThreads == 1..CorrThreads

\* A plausible slip: the block index used as the base without the stride.
EventBlockDense(k) == 1 + k

\* EventBlock(): id_start_ = 1 + ChunkSize * counter_++ (k is the value read).
EventBlock(k) == 1 + ChunkSize * k

\* EventBlock::correlation_id(ptr): id_start_ + (ptr - data()).
correlation_id(start, offset) == start + offset

\* AppendOnlyList::maybe_grow's condition: no block yet, or the last block is full.
BlockFull(t) == id_start_[t] = 0 \/ next_[t] = ChunkSize

CorrInit ==
    /\ counter_ = 0
    /\ id_start_ = [t \in CThreads |-> 0]
    /\ next_ = [t \in CThreads |-> 0]
    /\ op_pc = [t \in CThreads |-> "idle"]
    /\ corr_ids = [t \in CThreads |-> <<>>]

\* emplace_back, first half: maybe_grow(). A new block is constructed when the
\* last one is full; its constructor does one atomic fetch-and-increment.
MaybeGrow(t) ==
    /\ op_pc[t] = "idle"
    /\ Len(corr_ids[t]) < MaxOps
    /\ IF BlockFull(t)
         THEN /\ counter_' = counter_ + 1
              /\ id_start_' = [id_start_ EXCEPT ![t] = EventBlock(counter_)]
              /\ next_' = [next_ EXCEPT ![t] = 0]
         ELSE UNCHANGED <<counter_, id_start_, next_>>
    /\ op_pc' = [op_pc EXCEPT ![t] = "grown"]
    /\ UNCHANGED <<corr_ids, queue_vars, tree_vars, tensor_vars, merge_vars, ops_vars>>

\* emplace_back, second half: *next_ = {...}; corr_id = correlation_id(next_);
\* return {next_++, corr_id}.
EmplaceBack(t) ==
    /\ op_pc[t] = "grown"
    /\ corr_ids' = [corr_ids EXCEPT
                      ![t] = Append(@, correlation_id(id_start_[t], next_[t]))]
    /\ next_' = [next_ EXCEPT ![t] = @ + 1]
    /\ op_pc' = [op_pc EXCEPT ![t] = "idle"]
    /\ UNCHANGED <<counter_, id_start_, queue_vars, tree_vars, tensor_vars, merge_vars, ops_vars>>

(***************************************************************************)
(* ---------------- Subqueue directory: RecordQueue ---------------------- *)
(***************************************************************************)
QThreads == 1..QueueThreads
Slots == 1..QueueSlots
Addrs == 1..QueueAddrs

NoRet == [slot |-> 0, id |-> 0, ptr |-> NULL, hit |-> FALSE, again |-> FALSE,
          old |-> [key_ |-> 0, ref_ |-> NULL]]

\* at::RecordFunction::currentThreadId(): a distinct id per thread.
currentThreadId(t) == t

\* The heap addresses holding a ThreadLocalSubqueue of a live RecordQueue.
AllocatedSubqueues ==
    UNION {{sub_queues_[s][k] : k \in DOMAIN sub_queues_[s]} : s \in Slots}

\* A plausible slip: trusting the cached pointer without validating its key.
CacheHitUnchecked(s, t) == sub_queue_cache_[t].ref_ # NULL

\* getSubqueue's fast path test: id_ == sub_queue_cache_.key_.
CacheHit(s, t) == id_[s] = sub_queue_cache_[t].key_

\* A plausible slip: the directory lookup never finds the entry.
FoundNever(s, tid) == FALSE

\* sub_queues_.find(tid) != sub_queues_.end().
Found(s, tid) == tid \in DOMAIN sub_queues_[s]

\* flat_hash_map::emplace(tid, p): inserts only when tid has no entry.
MapEmplace(m, tid, p) == IF tid \in DOMAIN m THEN m ELSE m @@ (tid :> p)

QueueInit ==
    /\ queue_id_ = 0
    /\ live = [s \in Slots |-> FALSE]
    /\ id_ = [s \in Slots |-> 0]
    /\ sub_queues_ = [s \in Slots |-> <<>>]
    /\ sub_queue_mutex_ = [s \in Slots |-> 0]
    /\ sub_queue_cache_ = [t \in QThreads |-> [key_ |-> 0, ref_ |-> NULL]]
    /\ q_pc = [t \in QThreads |-> "idle"]
    /\ q_this = [t \in QThreads |-> 0]
    /\ q_ret = [t \in QThreads |-> NoRet]
    /\ q_first = [s \in Slots |-> [t \in QThreads |-> NULL]]
    /\ q_made = [s \in Slots |-> [t \in QThreads |-> 0]]

\* RecordQueue::RecordQueue: id_(++queue_id_), an empty directory.
NewRecordQueue(s) ==
    /\ ~live[s]
    /\ queue_id_ < MaxQueues
    /\ queue_id_' = queue_id_ + 1
    /\ id_' = [id_ EXCEPT ![s] = queue_id_ + 1]
    /\ live' = [live EXCEPT ![s] = TRUE]
    /\ sub_queues_' = [sub_queues_ EXCEPT ![s] = <<>>]
    /\ sub_queue_mutex_' = [sub_queue_mutex_ EXCEPT ![s] = 0]
    /\ q_first' = [q_first EXCEPT ![s] = [t \in QThreads |-> NULL]]
    /\ q_made' = [q_made EXCEPT ![s] = [t \in QThreads |-> 0]]
    /\ UNCHANGED <<sub_queue_cache_, q_pc, q_this, q_ret, corr_vars, tree_vars, tensor_vars, merge_vars, ops_vars>>

\* The end of a RecordQueue: its unique_ptr<ThreadLocalSubqueue>s are freed and
\* nothing clears the threads' sub_queue_cache_. No thread is inside a call on it.
DeleteRecordQueue(s) ==
    /\ live[s]
    /\ \A t \in QThreads : q_pc[t] = "idle" \/ q_this[t] # s
    /\ live' = [live EXCEPT ![s] = FALSE]
    /\ sub_queues_' = [sub_queues_ EXCEPT ![s] = <<>>]
    /\ UNCHANGED <<queue_id_, id_, sub_queue_mutex_, sub_queue_cache_, q_pc,
                   q_this, q_ret, q_first, q_made, corr_vars, tree_vars, tensor_vars, merge_vars, ops_vars>>

\* What a return of pointer p from getSubqueue on s leaves in the history.
Returned(t, s, p, hit) ==
    /\ q_ret' = [q_ret EXCEPT ![t] =
                   [slot |-> s, id |-> id_[s], ptr |-> p, hit |-> hit,
                    again |-> q_first[s][t] # NULL, old |-> sub_queue_cache_[t]]]
    /\ q_first' = [q_first EXCEPT ![s][t] = IF @ = NULL THEN p ELSE @]

\* getSubqueue, fast path: if (id_ == sub_queue_cache_.key_) return ref_.
GetSubqueueCached(t, s) ==
    /\ q_pc[t] = "idle"
    /\ live[s]
    /\ CacheHit(s, t)
    /\ Returned(t, s, sub_queue_cache_[t].ref_, TRUE)
    /\ UNCHANGED <<queue_id_, live, id_, sub_queues_, sub_queue_mutex_,
                   sub_queue_cache_, q_pc, q_this, q_made, corr_vars, tree_vars, tensor_vars, merge_vars, ops_vars>>

\* getSubqueue, the cache missed: go on to the locked directory.
GetSubqueueMiss(t, s) ==
    /\ q_pc[t] = "idle"
    /\ live[s]
    /\ ~CacheHit(s, t)
    /\ q_pc' = [q_pc EXCEPT ![t] = "lock"]
    /\ q_this' = [q_this EXCEPT ![t] = s]
    /\ UNCHANGED <<queue_id_, live, id_, sub_queues_, sub_queue_mutex_,
                   sub_queue_cache_, q_ret, q_first, q_made, corr_vars, tree_vars, tensor_vars, merge_vars, ops_vars>>

\* std::lock_guard<std::mutex> guard(sub_queue_mutex_).
GetSubqueueLock(t) ==
    /\ q_pc[t] = "lock"
    /\ sub_queue_mutex_[q_this[t]] = 0
    /\ sub_queue_mutex_' = [sub_queue_mutex_ EXCEPT ![q_this[t]] = t]
    /\ q_pc' = [q_pc EXCEPT ![t] = "find"]
    /\ UNCHANGED <<queue_id_, live, id_, sub_queues_, sub_queue_cache_, q_this,
                   q_ret, q_first, q_made, corr_vars, tree_vars, tensor_vars, merge_vars, ops_vars>>

\* it = find(tid); if (it == end()) it = emplace(tid, make_unique<...>).first.
GetSubqueueFind(t) ==
    LET s == q_this[t]
        tid == currentThreadId(t)
    IN  /\ q_pc[t] = "find"
        /\ IF Found(s, tid)
             THEN UNCHANGED <<sub_queues_, q_made>>
             ELSE \E p \in Addrs \ AllocatedSubqueues :
                    /\ sub_queues_' = [sub_queues_ EXCEPT
                                         ![s] = MapEmplace(@, tid, p)]
                    /\ q_made' = [q_made EXCEPT ![s][tid] = @ + 1]
        /\ q_pc' = [q_pc EXCEPT ![t] = "store"]
        /\ UNCHANGED <<queue_id_, live, id_, sub_queue_mutex_, sub_queue_cache_,
                       q_this, q_ret, q_first, corr_vars, tree_vars, tensor_vars, merge_vars, ops_vars>>

\* sub_queue_cache_ = {id_, it->second.get()}; return it->second.get(); the
\* guard releases the mutex.
GetSubqueueStore(t) ==
    LET s == q_this[t]
        p == sub_queues_[s][currentThreadId(t)]
    IN  /\ q_pc[t] = "store"
        /\ sub_queue_cache_' = [sub_queue_cache_ EXCEPT
                                  ![t] = [key_ |-> id_[s], ref_ |-> p]]
        /\ Returned(t, s, p, FALSE)
        /\ sub_queue_mutex_' = [sub_queue_mutex_ EXCEPT ![s] = 0]
        /\ q_pc' = [q_pc EXCEPT ![t] = "idle"]
        /\ UNCHANGED <<queue_id_, live, id_, sub_queues_, q_this, q_made,
                       corr_vars, tree_vars, tensor_vars, merge_vars, ops_vars>>

(***************************************************************************)
(* ---------------- getRecords: the Result objects ----------------------- *)
(***************************************************************************)
UnsetTime == -2147483647      \* std::numeric_limits<time_t>::min(): no end time
NoTID == -1                   \* std::numeric_limits<uint64_t>::max(): placeholder tid
kLinkAsyncCpuGpu == 2         \* libkineto::kLinkAsyncCpuGpu

TreeTids == 1..TreeThreads
NoFlow == [id |-> 0, type |-> 0, start |-> FALSE]

\* Result::create for an ExtraFields<TorchOp>. fin_end (the end time reported when
\* the event was finalized) and by (who set parent_) are history, not program state.
TorchOp(start, end, tid, fwd) ==
    [kind |-> "TorchOp", start_time_ns_ |-> start, end_time_ns_ |-> end,
     duration_us_ |-> 0, start_tid_ |-> tid, forward_tid_ |-> fwd,
     linked_activity_ |-> 0, flow |-> NoFlow,
     parent_ |-> 0, children_ |-> <<>>, finished_ |-> FALSE,
     fin_end |-> UnsetTime, by |-> "none"]

\* resultFromActivity: an ExtraFields<Kineto> with the placeholder tid, after
\* extractEventsFromTrace has set linked_activity_ (0: none).
Kineto(start, duration, linked, flow) ==
    [kind |-> "Kineto", start_time_ns_ |-> start, end_time_ns_ |-> UnsetTime,
     duration_us_ |-> duration, start_tid_ |-> NoTID, forward_tid_ |-> 0,
     linked_activity_ |-> linked, flow |-> flow,
     parent_ |-> 0, children_ |-> <<>>, finished_ |-> FALSE,
     fin_end |-> UnsetTime, by |-> "none"]

RECURSIVE endTimeNS(_, _)

\* torchOpEndNS: a finished op without an end time borrows its parent's.
torchOpEndNS(R, e) ==
    IF R[e].finished_ /\ R[e].end_time_ns_ = UnsetTime /\ R[e].parent_ # 0
      THEN endTimeNS(R, R[e].parent_)
      ELSE R[e].end_time_ns_

\* Result::endTimeNS, the visit: end_time_ns before validation.
end_time_ns(R, e) ==
    IF R[e].kind = "TorchOp"
      THEN torchOpEndNS(R, e)
      ELSE R[e].start_time_ns_ + R[e].duration_us_ * 1000

\* Result::endTimeNS: !finished_ || SOFT_ASSERT(end_time_ns >= start_time_ns_).
end_time_is_valid(R, e) ==
    ~R[e].finished_ \/ end_time_ns(R, e) >= R[e].start_time_ns_

\* A plausible slip: the value returned without the validation.
endTimeNSUnchecked(R, e) == end_time_ns(R, e)

\* Result::endTimeNS.
endTimeNS(R, e) ==
    IF end_time_is_valid(R, e) THEN end_time_ns(R, e) ELSE R[e].start_time_ns_

\* The pieces of getRecords below work on a record S with the fields R (the
\* Results), err (the failed assertion, "" for none) and soft (a SOFT_ASSERT
\* failed), plus the fields of the pass they belong to.
Fail(S, what) == [S EXCEPT !.err = what]

\* mark_finished.
mark_finished(S, e) ==
    IF S.err # "" THEN S
    ELSE IF S.R[e].finished_ THEN Fail(S, "mark_finished: finished twice")
    ELSE LET R1 == [S.R EXCEPT ![e].finished_ = TRUE]
             end == endTimeNS(R1, e)
         IN  [S EXCEPT !.R = [R1 EXCEPT ![e].fin_end = end],
                       !.soft = @ \/ ~end_time_is_valid(R1, e),
                       !.err = IF end >= R1[e].start_time_ns_
                                 THEN "" ELSE "mark_finished: end before start"]

(***************************************************************************)
(* ---------------- TransferEvents::setParents --------------------------- *)
(***************************************************************************)
\* flow_map.insert({i.flow.id, e}).second: the flow id was not in the map.
FlowInserted(flow_map, flow) == flow.id \notin DOMAIN flow_map

\* A plausible slip: a flow start is never looked up.
FollowsFlowNever(flow_map, flow) == FALSE

\* Second pass: the event continues an async CPU-to-device flow whose start is known.
FollowsFlow(flow_map, flow) ==
    /\ flow.id \in DOMAIN flow_map
    /\ flow.type = kLinkAsyncCpuGpu
    /\ ~flow.start

\* First pass: collect the flow starts and set parent_ to the linked event. With
\* USE_ROCM a repeated flow start is kept out of the map without an assertion,
\* and the warning is issued when the insertion succeeded.
RECURSIVE setParentsFirst(_, _, _)
setParentsFirst(S, o, i) ==
    IF i > Len(o) \/ S.err # "" THEN S
    ELSE LET e == o[i]
             r == S.R[e]
             is_start == r.flow.type = kLinkAsyncCpuGpu /\ r.flow.start
         IN  IF r.kind # "Kineto" THEN setParentsFirst(S, o, i + 1)
             ELSE IF is_start /\ ~S.rocm /\ ~FlowInserted(S.flow_map, r.flow)
               THEN Fail(S, "setParents: duplicate flow start")
             ELSE IF r.parent_ # 0 THEN Fail(S, "setParents: parent set")
             ELSE setParentsFirst(
                    [S EXCEPT !.flow_map = IF is_start /\ FlowInserted(@, r.flow)
                                             THEN @ @@ (r.flow.id :> e) ELSE @,
                              !.warn = IF is_start /\ S.rocm /\ FlowInserted(S.flow_map, r.flow)
                                         THEN @ \cup {"ROCTracer produced duplicate flow start"}
                                         ELSE @,
                              !.R[e].parent_ = r.linked_activity_],
                    o, i + 1)

\* Second pass: the flow start takes priority over the linked event; an event
\* with a parent joins the parent's children and is marked finished.
RECURSIVE setParentsSecond(_, _, _)
setParentsSecond(S, o, i) ==
    IF i > Len(o) \/ S.err # "" THEN S
    ELSE LET e == o[i]
             r == S.R[e]
             parent == IF FollowsFlow(S.flow_map, r.flow)
                         THEN S.flow_map[r.flow.id] ELSE r.parent_
         IN  IF r.kind # "Kineto" THEN setParentsSecond(S, o, i + 1)
             ELSE IF parent = 0 THEN setParentsSecond(S, o, i + 1)
             ELSE LET R1 == [S.R EXCEPT ![e].parent_ = parent, ![e].by = "merge"]
                      R2 == [R1 EXCEPT ![parent].children_ = Append(@, e)]
                  IN  setParentsSecond(mark_finished([S EXCEPT !.R = R2], e), o, i + 1)

\* setKinetoTID(r, parent): a Kineto event takes its parent's tid, a root the
\* tid of the current thread; then the children, in order.
RECURSIVE setKinetoTID(_, _, _, _)
RECURSIVE setChildrenTID(_, _, _, _)
setKinetoTID(S, r, parent, cur) ==
    IF S.err # "" THEN S
    ELSE IF S.R[r].kind = "Kineto" /\ S.R[r].start_tid_ # NoTID
      THEN Fail(S, "setKinetoTID: tid set")
    ELSE LET tid == IF parent # 0 THEN S.R[parent].start_tid_ ELSE cur
             S1 == IF S.R[r].kind = "Kineto"
                     THEN [S EXCEPT !.R[r].start_tid_ = tid] ELSE S
         IN  setChildrenTID(S1, r, 1, cur)

setChildrenTID(S, r, j, cur) ==
    IF j > Len(S.R[r].children_) \/ S.err # "" THEN S
    ELSE setChildrenTID(setKinetoTID(S, S.R[r].children_[j], r, cur), r, j + 1, cur)

\* Third pass: set the tids from every event without a parent.
RECURSIVE setParentsTIDs(_, _, _, _)
setParentsTIDs(S, o, i, cur) ==
    IF i > Len(o) \/ S.err # "" THEN S
    ELSE setParentsTIDs(
           IF S.R[o[i]].parent_ = 0 THEN setKinetoTID(S, o[i], 0, cur) ELSE S,
           o, i + 1, cur)

\* TransferEvents::setParents.
setParents(R, o, cur, rocm, warn) ==
    LET S0 == [R |-> R, err |-> "", soft |-> FALSE, flow_map |-> <<>>,
               rocm |-> rocm, warn |-> warn]
    IN  setParentsTIDs(setParentsSecond(setParentsFirst(S0, o, 1), o, 1), o, 1, cur)

(***************************************************************************)
(* ---------------- passEventsToKineto and TransferEvents ---------------- *)
(***************************************************************************)
unmatchedIndex == -1          \* TransferEvents::unmatchedIndex

\* std::to_string of an index: its decimal digits.
RECURSIVE to_string(_)
to_string(i) == IF i < 10 THEN <<i>> ELSE Append(to_string(i \div 10), i % 10)

\* std::stoll of a digit string.
RECURSIVE stoll(_)
stoll(digits) ==
    IF Len(digits) = 1 THEN digits[1]
    ELSE 10 * stoll(SubSeq(digits, 1, Len(digits) - 1)) + digits[Len(digits)]

\* An activity of a trace: the value its metadata holds under indexKey (<<>>:
\* the key is absent), whether its type is one the profiler itself passes
\* (CPU_OP, CPU_INSTANT_EVENT, USER_ANNOTATION, PYTHON_FUNCTION), its linked
\* activity (a place in the trace, 0: none), flow, timestamp and duration.
Activity(metadata, cpu, linked, flow, timestamp, duration) ==
    [metadata |-> metadata, cpu |-> cpu, linked |-> linked, flow |-> flow,
     timestamp |-> timestamp, duration |-> duration]

\* passEventsToKineto: the activity added for the event at place i (from 1) of
\* results, with addMetadata(activity, indexKey, std::to_string(i - 1)).
addCPUActivity(R, i) ==
    Activity(to_string(i - 1), TRUE, 0, NoFlow,
             R[i].start_time_ns_ \div 1000, 0)

\* A plausible slip: the metadata is never read.
extractIndexNever(metadata) == unmatchedIndex

\* TransferEvents::extractIndex.
extractIndex(metadata) ==
    IF metadata = <<>> THEN unmatchedIndex ELSE stoll(metadata)

\* The pieces of TransferEvents below work on a record M with the fields acts
\* (trace_activities_), R and out (results_), ke (kineto_events_), ka
\* (kineto_activity_ of each Result), err and warn.

\* A plausible slip: the map is not consulted, only the metadata.
lookupResultNoMap(M, key) ==
    IF key = 0 THEN 0
    ELSE LET index == extractIndex(M.acts[key].metadata)
         IN  IF index >= 0 /\ index < Len(M.R) THEN index + 1 ELSE 0

\* TransferEvents::lookup, the Result it returns (0: nullptr; a failed
\* results_.at() returns nothing and is recorded by lookupState).
lookupResult(M, key) ==
    IF key = 0 THEN 0
    ELSE IF key \in DOMAIN M.ke THEN M.ke[key]
    ELSE LET index == extractIndex(M.acts[key].metadata)
         IN  IF index = unmatchedIndex THEN 0
             ELSE IF index >= 0 /\ index < Len(M.R) THEN index + 1
             ELSE 0

\* TransferEvents::lookup, its effect: the map entry or the exception of at().
lookupState(M, key) ==
    IF key = 0 \/ key \in DOMAIN M.ke THEN M
    ELSE LET index == extractIndex(M.acts[key].metadata)
         IN  IF index = unmatchedIndex THEN M
             ELSE IF index >= 0 /\ index < Len(M.R)
               THEN [M EXCEPT !.ke = @ @@ (key :> index + 1)]
             ELSE Fail(M, "lookup: results_.at")

\* TransferEvents::reassociate, the loop from activity k on.
RECURSIVE reassociateFrom(_, _)
reassociateFrom(M, k) ==
    IF k > Len(M.acts) \/ M.err # "" THEN M
    ELSE LET e == lookupResult(M, k)
             M1 == lookupState(M, k)
         IN  IF M1.err # "" THEN M1
             ELSE IF e = 0 THEN reassociateFrom(M1, k + 1)
             ELSE IF M1.ka[e] # 0
               THEN Fail(M1, "reassociate: kineto_activity_ set")
             ELSE reassociateFrom([M1 EXCEPT !.ka[e] = k], k + 1)

\* TransferEvents::reassociate.
reassociate(M) ==
    LET M1 == reassociateFrom(M, 1)
    IN  IF M1.err = "" /\ Len(M1.R) # Cardinality(DOMAIN M1.ke)
          THEN [M1 EXCEPT !.warn = @ \cup {"Failed to recover relationship"}]
          ELSE M1

\* TransferEvents::toResult, the Result it returns (0: nullptr).
toResultValue(M, k) ==
    LET e == lookupResult(M, k)
    IN  IF lookupState(M, k).err # "" THEN 0
        ELSE IF e # 0 THEN e
        ELSE IF M.acts[k].cpu THEN 0
        ELSE Len(M.R) + 1

\* TransferEvents::toResult, its effect: a warning, or a new Result at the end
\* of results_.
toResultState(M, k) ==
    LET e == lookupResult(M, k)
        M1 == lookupState(M, k)
        a == M.acts[k]
    IN  IF M1.err # "" \/ e # 0 THEN M1
        ELSE IF a.cpu
          THEN [M1 EXCEPT !.warn = @ \cup {"Detected an event not present in the set of known events"}]
        ELSE [M1 EXCEPT !.R = Append(@, Kineto(a.timestamp * 1000, a.duration, 0, a.flow)),
                        !.out = Append(@, Len(M.R) + 1),
                        !.ka = Append(@, 0),
                        !.ke = @ @@ (k :> Len(M.R) + 1)]

\* TransferEvents::extractEventsFromTrace, the loop from activity k on.
RECURSIVE extractEventsFrom(_, _)
extractEventsFrom(M, k) ==
    IF k > Len(M.acts) \/ M.err # "" THEN M
    ELSE LET e == toResultValue(M, k)
             M1 == toResultState(M, k)
             linked == M.acts[k].linked
             l == toResultValue(M1, linked)
             M2 == toResultState(M1, linked)
         IN  IF M1.err # "" THEN M1
             ELSE IF e = 0 \/ linked = 0 THEN extractEventsFrom(M1, k + 1)
             ELSE IF M1.R[e].kind # "Kineto"
               THEN Fail(M1, "extractEventsFromTrace: linked activity of a non-Kineto event")
             ELSE IF M2.err # "" THEN M2
             ELSE extractEventsFrom([M2 EXCEPT !.R[e].linked_activity_ = l], k + 1)

\* The state TransferEvents works on, as a record.
MergeState == [acts |-> trace_activities_, R |-> results, out |-> out,
               ke |-> kineto_events_, ka |-> kineto_activity_,
               err |-> t_err, warn |-> t_warn]

\* What a step of TransferEvents leaves behind; a failed assertion ends getRecords.
MergeStep(M, next_pc) ==
    /\ results' = M.R
    /\ out' = M.out
    /\ kineto_events_' = M.ke
    /\ kineto_activity_' = M.ka
    /\ t_err' = M.err
    /\ t_warn' = M.warn
    /\ t_pc' = IF M.err # "" THEN "abort" ELSE next_pc

(***************************************************************************)
(* ---------------- stable_sort and build_tree --------------------------- *)
(***************************************************************************)
\* A plausible slip: a comparison that also holds for equal start times.
SortLessOrEqual(R, a, b) == R[a].start_time_ns_ <= R[b].start_time_ns_

\* The comparison getRecords sorts with: a->start_time_ns_ < b->start_time_ns_.
SortLess(R, a, b) == R[a].start_time_ns_ < R[b].start_time_ns_

\* One insertion of a stable sort: x goes before the first element it is less than.
RECURSIVE InsertSorted(_, _, _)
InsertSorted(R, sorted, x) ==
    IF sorted = <<>> THEN <<x>>
    ELSE IF SortLess(R, x, sorted[Len(sorted)])
      THEN Append(InsertSorted(R, SubSeq(sorted, 1, Len(sorted) - 1), x),
                  sorted[Len(sorted)])
      ELSE Append(sorted, x)

\* std::stable_sort(out.begin(), out.end(), ...).
RECURSIVE stable_sort(_, _)
stable_sort(R, o) ==
    IF o = <<>> THEN <<>>
    ELSE InsertSorted(R, stable_sort(R, SubSeq(o, 1, Len(o) - 1)), o[Len(o)])

\* A plausible slip: the frame of the closed event's thread is not restored.
NewFrameNone(R, e) == 0

\* A plausible slip: the closed event itself stays as the frame of its thread.
NewFrameSelf(R, e) == e

\* pop_event: new_frame = event->parent_.lock().
NewFrame(R, e) == R[e].parent_

\* A plausible slip: the forward thread's frame is looked up first.
FindParentForwardFirst(frames, tid, fwd_tid) ==
    IF fwd_tid # 0 /\ frames[fwd_tid] # 0 THEN frames[fwd_tid] ELSE frames[tid]

\* push_event: stacks.find(start_tid_), then stacks.find(fwd_tid) (0: end()).
FindParent(frames, tid, fwd_tid) ==
    IF frames[tid] # 0 THEN frames[tid]
    ELSE IF fwd_tid # 0 THEN frames[fwd_tid] ELSE 0

\* A plausible slip: no event is skipped.
FinalizedKinetoNever(r) == FALSE

\* push_event, its first test: a Kineto event that is already marked finished.
FinalizedKineto(r) == r.kind = "Kineto" /\ r.finished_

\* push_event.
push_event(S, e) ==
    LET r == S.R[e]
        tid == r.start_tid_
        fwd_tid == IF r.kind = "TorchOp" THEN r.forward_tid_ ELSE 0
        parent == FindParent(S.stacks, tid, fwd_tid)
        R1 == IF parent = 0 THEN S.R
              ELSE [[S.R EXCEPT ![e].parent_ = parent, ![e].by = "build"]
                        EXCEPT ![parent].children_ = Append(@, e)]
        S1 == [S EXCEPT !.R = R1]
    IN  IF FinalizedKineto(r) THEN S
        ELSE IF r.parent_ # 0 THEN Fail(S, "push_event: parent set")
        ELSE IF \E j \in 1..Len(r.children_) : ~S.R[r.children_[j]].finished_
          THEN Fail(S, "push_event: child not finished")
        ELSE IF r.finished_ THEN Fail(S, "push_event: finished")
        ELSE IF endTimeNS(R1, e) > r.start_time_ns_
          THEN [S1 EXCEPT !.stacks[tid] = e, !.heap = @ \cup {e}]
        ELSE IF endTimeNS(R1, e) = UnsetTime
          THEN [S1 EXCEPT !.stacks[tid] = e]
        ELSE mark_finished(S1, e)

\* pop_event, the loop: finish every frame from the open one up to the event.
RECURSIVE pop_walk(_, _, _)
pop_walk(S, frame, e) ==
    IF S.err # "" \/ frame = e THEN S
    ELSE LET S1 == mark_finished(S, frame)
         IN  IF S1.err # "" THEN S1
             ELSE IF S1.R[frame].parent_ = 0
               THEN Fail(S1, "pop_event: parent expired")
             ELSE pop_walk(S1, S1.R[frame].parent_, e)

\* pop_event.
pop_event(S, e) ==
    LET tid == S.R[e].start_tid_
    IN  IF S.R[e].finished_ THEN S
        ELSE IF S.stacks[tid] = 0 THEN Fail(S, "pop_event: stacks.at")
        ELSE LET S1 == mark_finished(pop_walk(S, S.stacks[tid], e), e)
             IN  IF S1.err # "" THEN S1
                 ELSE [S1 EXCEPT !.stacks[tid] = NewFrame(S1.R, e)]

\* end_events_.top(): an event whose end time no other pending event precedes.
Tops(R, heap) == {e \in heap : \A f \in heap : endTimeNS(R, e) <= endTimeNS(R, f)}

\* The state build_tree works on, as a record.
TreeState == [R |-> results, stacks |-> stacks, heap |-> end_events_,
              err |-> t_err, soft |-> t_soft]

\* What one step of build_tree leaves behind; a failed assertion ends getRecords.
TreeStep(S) ==
    /\ results' = S.R
    /\ stacks' = S.stacks
    /\ end_events_' = S.heap
    /\ t_err' = S.err
    /\ t_soft' = S.soft
    /\ t_pc' = IF S.err # "" THEN "abort" ELSE t_pc

(***************************************************************************)
(* ---------------- getRecords: the inputs ------------------------------- *)
(***************************************************************************)
TreeTimes == {1000 * k : k \in 0..MaxTime}
\* The time points of the spec's example A:[0,100], B:[10,50], C:[60,90].
NestTimes == {0, 10, 50, 60, 90, 100} \cup {100 + 10 * k : k \in 1..ExtraNestTimes}

\* Operation events of any thread, with a forward thread id of another thread or
\* none, and any end time (unset, before, at or after the start).
AnyOps ==
    {TorchOp(s, e, t, f) : s \in TreeTimes, e \in TreeTimes \cup {UnsetTime},
                           t \in TreeTids, f \in {0} \cup TreeTids}

\* Operation events of thread 1 at the time points of the nesting example.
NestOps ==
    {TorchOp(s, e, 1, 0) : s \in NestTimes, e \in NestTimes}

\* External activities: a duration of -1, 0 or 1 us, a linked activity or none, and
\* no flow, the start of flow 1 or a continuation of flow 1.
KinetoEvents ==
    {Kineto(s, d, l, f) :
        s \in TreeTimes, d \in -1..1, l \in 0..TreeEvents,
        f \in {NoFlow,
               [id |-> 1, type |-> kLinkAsyncCpuGpu, start |-> TRUE],
               [id |-> 1, type |-> kLinkAsyncCpuGpu, start |-> FALSE]}}

Sorted(R) ==
    \A i, j \in DOMAIN R : i < j => R[i].start_time_ns_ <= R[j].start_time_ns_

\* Drained operation events of several threads, already in start order.
AnyInputs ==
    {R \in [1..TreeEvents -> AnyOps] :
        /\ Sorted(R)
        /\ R[1].start_tid_ = 1
        /\ \A i \in DOMAIN R : R[i].forward_tid_ # R[i].start_tid_}

\* Drained operation events of one thread in any order, none ending before it starts.
NestInputs ==
    {R \in [1..TreeEvents -> NestOps] :
        \A i \in DOMAIN R : R[i].start_time_ns_ <= R[i].end_time_ns_}

\* One operation event of thread 1 followed by external activities.
KinetoInputs ==
    {R \in [1..TreeEvents -> AnyOps \cup KinetoEvents] :
        /\ R[1].kind = "TorchOp"
        /\ R[1].start_tid_ = 1 /\ R[1].forward_tid_ = 0 /\ R[1].start_time_ns_ = 0
        /\ R[1].end_time_ns_ >= 0
        /\ \A i \in 2..TreeEvents :
              R[i].kind = "Kineto" /\ R[i].linked_activity_ # i}

\* TransferEvents is not constructed.
MergeIdle ==
    /\ use_rocm = FALSE
    /\ t_warn = {}
    /\ trace_activities_ = <<>>
    /\ kineto_events_ = <<>>
    /\ kineto_activity_ = <<>>

\* Some Result is the start of an async CPU-to-device flow: the only inputs on
\* which the two builds (with and without USE_ROCM) differ.
HasFlowStart(R) ==
    \E i \in DOMAIN R : R[i].flow.type = kLinkAsyncCpuGpu /\ R[i].flow.start

TreeIdle ==
    /\ results = <<>>
    /\ out = <<>>
    /\ kineto_tid = 1
    /\ stacks = [t \in TreeTids \cup {NoTID} |-> 0]
    /\ end_events_ = {}
    /\ t_i = 1
    /\ t_pc = "idle"
    /\ t_err = ""
    /\ t_soft = FALSE

\* getRecords after the drain: `out` holds the Results in drain order.
TreeInit ==
    /\ \/ results \in AnyInputs /\ kineto_tid = 1
       \/ results \in NestInputs /\ kineto_tid = 1
       \/ results \in KinetoInputs /\ kineto_tid \in TreeTids
    /\ out = [i \in 1..TreeEvents |-> i]
    /\ stacks = [t \in TreeTids \cup {NoTID} |-> 0]
    /\ end_events_ = {}
    /\ t_i = 1
    /\ t_pc = "merge"
    /\ t_err = ""
    /\ t_soft = FALSE
    /\ use_rocm \in (IF HasFlowStart(results) THEN BOOLEAN ELSE {FALSE})
    /\ t_warn = {}
    /\ trace_activities_ = <<>>
    /\ kineto_events_ = <<>>
    /\ kineto_activity_ = <<>>

\* The flows an external activity can carry: none, the start of flow 1, a
\* continuation of flow 1.
Flows ==
    {NoFlow,
     [id |-> 1, type |-> kLinkAsyncCpuGpu, start |-> TRUE],
     [id |-> 1, type |-> kLinkAsyncCpuGpu, start |-> FALSE]}

\* The metadata an activity of the returned trace can hold under indexKey:
\* nothing, what passEventsToKineto wrote for some event, or an index past the end.
Metadata(passed) ==
    {<<>>, to_string(Len(passed))} \cup {passed[i].metadata : i \in DOMAIN passed}

\* Traces without flows: any metadata, either kind of type, at most a link to
\* the next activity (cyclically).
PlainTraces(passed) ==
    {tr \in [1..MergeActivities ->
                {Activity(m, c, l, NoFlow, 1, 1) :
                    m \in Metadata(passed), c \in BOOLEAN, l \in 0..MergeActivities}] :
        \A k \in DOMAIN tr :
            tr[k].linked \in {0, (k % MergeActivities) + 1}}

\* Traces with flows: device activities and the activity passed for the first
\* event, any links but to itself, any flow.
FlowTraces(passed) ==
    {tr \in [1..MergeActivities ->
                {Activity(m, m # <<>>, l, f, 1, 1) :
                    m \in {<<>>, passed[1].metadata}, l \in 0..MergeActivities,
                    f \in Flows}] :
        \A k \in DOMAIN tr : tr[k].linked # k}

\* getRecords has drained the events and is about to call addKinetoEvents.
MergeInit ==
    /\ results \in {R \in [1..MergeResults -> {TorchOp(0, 1000 * MaxTime, t, 0) : t \in TreeTids}] :
                       R[1].start_tid_ = 1}
    /\ out = [i \in 1..MergeResults |-> i]
    /\ kineto_tid = 1
    /\ stacks = [t \in TreeTids \cup {NoTID} |-> 0]
    /\ end_events_ = {}
    /\ t_i = 1
    /\ t_pc = "pass"
    /\ t_err = ""
    /\ t_soft = FALSE
    /\ use_rocm \in BOOLEAN
    /\ t_warn = {}
    /\ trace_activities_ = <<>>
    /\ kineto_events_ = <<>>
    /\ kineto_activity_ = [i \in 1..MergeResults |-> 0]

(***************************************************************************)
(* ---------------- getRecords: the steps -------------------------------- *)
(***************************************************************************)
\* passEventsToKineto: one CPU activity per event, with its index as metadata.
PassEventsToKineto ==
    /\ t_pc = "pass"
    /\ trace_activities_' = [i \in DOMAIN results |-> addCPUActivity(results, i)]
    /\ t_pc' = "stop"
    /\ UNCHANGED <<results, out, kineto_tid, stacks, end_events_, t_i, t_err, t_soft,
                   use_rocm, t_warn, kineto_events_, kineto_activity_,
                   corr_vars, queue_vars, tensor_vars, ops_vars>>

\* stopTrace(): the external library returns its trace.
StopTrace ==
    /\ t_pc = "stop"
    /\ trace_activities_' \in PlainTraces(trace_activities_) \cup FlowTraces(trace_activities_)
    /\ t_pc' = "reassociate"
    /\ UNCHANGED <<results, out, kineto_tid, stacks, end_events_, t_i, t_err, t_soft,
                   use_rocm, t_warn, kineto_events_, kineto_activity_,
                   corr_vars, queue_vars, tensor_vars, ops_vars>>

\* TransferEvents(): reassociate().
Reassociate ==
    /\ t_pc = "reassociate"
    /\ MergeStep(reassociate(MergeState), "extract")
    /\ UNCHANGED <<kineto_tid, stacks, end_events_, t_i, t_soft, use_rocm,
                   trace_activities_, corr_vars, queue_vars, tensor_vars, ops_vars>>

\* TransferEvents(): extractEventsFromTrace().
ExtractEventsFromTrace ==
    /\ t_pc = "extract"
    /\ MergeStep(extractEventsFrom(MergeState, 1), "merge")
    /\ UNCHANGED <<kineto_tid, stacks, end_events_, t_i, t_soft, use_rocm,
                   trace_activities_, corr_vars, queue_vars, tensor_vars, ops_vars>>

\* addKinetoEvents: TransferEvents' setParents on the Results.
AddKinetoEvents ==
    /\ t_pc = "merge"
    /\ LET S == setParents(results, out, kineto_tid, use_rocm, t_warn)
       IN  /\ results' = S.R
           /\ t_err' = S.err
           /\ t_soft' = S.soft
           /\ t_warn' = S.warn
           /\ t_pc' = IF S.err # "" THEN "abort" ELSE "sort"
    /\ UNCHANGED <<out, kineto_tid, stacks, end_events_, t_i, use_rocm, trace_activities_,
                   kineto_events_, kineto_activity_, corr_vars, queue_vars, tensor_vars, ops_vars>>

\* std::stable_sort of out by start time.
StableSort ==
    /\ t_pc = "sort"
    /\ out' = stable_sort(results, out)
    /\ t_pc' = "build"
    /\ UNCHANGED <<results, kineto_tid, stacks, end_events_, t_i, t_err, t_soft,
                   corr_vars, queue_vars, tensor_vars, merge_vars, ops_vars>>

\* The pending end that the replay loop (or the cleanup loop) pops next.
PopEnabled(e) ==
    /\ e \in Tops(results, end_events_)
    /\ IF t_i > Len(out) THEN TRUE
       ELSE endTimeNS(results, e) < results[out[t_i]].start_time_ns_

\* build_tree: pop_event(end_events_.top()); end_events_.pop().
BuildPop ==
    /\ t_pc = "build"
    /\ \E e \in end_events_ :
          /\ PopEnabled(e)
          /\ TreeStep([pop_event(TreeState, e) EXCEPT !.heap = @ \ {e}])
    /\ UNCHANGED <<out, kineto_tid, t_i, corr_vars, queue_vars, tensor_vars, merge_vars, ops_vars>>

\* build_tree: push_event(event), once no pending end precedes the event's start.
BuildPush ==
    /\ t_pc = "build"
    /\ t_i <= Len(out)
    /\ \A e \in end_events_ : ~PopEnabled(e)
    /\ TreeStep(push_event(TreeState, out[t_i]))
    /\ t_i' = t_i + 1
    /\ UNCHANGED <<out, kineto_tid, corr_vars, queue_vars, tensor_vars, merge_vars, ops_vars>>

\* build_tree returns, and getRecords with it.
BuildReturn ==
    /\ t_pc = "build"
    /\ t_i > Len(out)
    /\ end_events_ = {}
    /\ t_pc' = "done"
    /\ UNCHANGED <<results, out, kineto_tid, stacks, end_events_, t_i, t_err, t_soft,
                   corr_vars, queue_vars, tensor_vars, merge_vars, ops_vars>>

(***************************************************************************)
(* ---------------- calculate_unique_tensor_ids -------------------------- *)
(***************************************************************************)
NoId == -1                    \* c10::nullopt in an id_ field

\* An operation event with one input: TensorImpl address and data pointer
\* (0: nullptr).
OpInput(impl, data) ==
    [kind |-> "TorchOp", impl_ |-> impl, data_ |-> data, ptr_ |-> 0, alloc_size_ |-> 0]

\* An allocation event; a negative size is a free.
Allocation(ptr, size) ==
    [kind |-> "Allocation", impl_ |-> 0, data_ |-> 0, ptr_ |-> ptr, alloc_size_ |-> size]

\* A plausible slip: every reference is given a fresh storage id.
lookupFresh(m, cur, data) == cur

\* The lambda lookup: the id of the live storage at data, a fresh id otherwise.
lookup(m, cur, data) == IF data \in DOMAIN m THEN m[data] ELSE cur

\* The lambda lookup, its effect on live_storage and current_id.
lookup_insert(m, cur, data) ==
    IF data \in DOMAIN m THEN m ELSE m @@ (data :> cur)

lookup_next(m, cur, data) == IF data \in DOMAIN m THEN cur ELSE cur + 1

\* A plausible slip: a free leaves the storage live.
EraseNever(m, alloc_op) == m

\* Handle deallocation: live_storage.erase(ptr_) when alloc_size_ < 0.
EraseFreed(m, alloc_op) ==
    IF alloc_op.alloc_size_ < 0
      THEN [d \in DOMAIN m \ {alloc_op.ptr_} |-> m[d]]
      ELSE m

\* A plausible slip: no entry is dropped.
UnprovenNever(set, t) == FALSE

\* A plausible slip: every entry is dropped.
UnprovenAlways(set, t) == TRUE

\* The remove_if predicate: no operation input refers to the entry's storage.
Unproven(set, t) == t.storage_id_ \notin set

RECURSIVE RemoveIf(_, _)
RemoveIf(ts, set) ==
    IF ts = <<>> THEN <<>>
    ELSE LET rest == RemoveIf(Tail(ts), set)
         IN  IF Unproven(set, Head(ts)) THEN rest ELSE <<Head(ts)>> \o rest

\* Step 2: the pairs (sorted) of the storage first seen with a TensorImpl and
\* every storage seen with it.
RECURSIVE SameGroup(_, _, _)
SameGroup(ts, impl_map, pairs) ==
    IF ts = <<>> THEN pairs
    ELSE LET t == Head(ts)
             m == IF t.impl_ \in DOMAIN impl_map THEN impl_map
                  ELSE impl_map @@ (t.impl_ :> t.storage_id_)
             pair == IF m[t.impl_] < t.storage_id_
                       THEN <<m[t.impl_], t.storage_id_>>
                       ELSE <<t.storage_id_, m[t.impl_]>>
         IN  IF t.impl_ = 0 THEN SameGroup(Tail(ts), impl_map, pairs)
             ELSE SameGroup(Tail(ts), m, pairs \cup {pair})

PairLess(a, b) == a[1] < b[1] \/ (a[1] = b[1] /\ a[2] < b[2])

\* std::sort(unique_pairs.begin(), unique_pairs.end()).
RECURSIVE SortPairs(_)
SortPairs(pairs) ==
    IF pairs = {} THEN <<>>
    ELSE LET least == CHOOSE a \in pairs : \A b \in pairs \ {a} : PairLess(a, b)
         IN  <<least>> \o SortPairs(pairs \ {least})

\* id_map.insert({key, value}): the map keeps an existing entry.
MapInsert(m, key, value) == IF key \in DOMAIN m THEN m ELSE m @@ (key :> value)

\* Step 4 over the entries from j on.
RECURSIVE WriteBackFrom(_, _, _, _)
WriteBackFrom(ts, m, out_ids, j) ==
    IF j > Len(ts) THEN out_ids
    ELSE WriteBackFrom(ts, m, [out_ids EXCEPT ![ts[j].ref] = m[ts[j].storage_id_]], j + 1)

TensorOps(impls, addrs) == {OpInput(i, d) : i \in impls, d \in addrs}

\* The algorithm compares addresses only for equality (they are keys of hash
\* maps), so it is enough to take the sequences in which every TensorImpl address
\* and every data pointer is, at its first occurrence, the least one not yet used.
FirstUse(seq, field) ==
    \A i \in DOMAIN seq :
        seq[i][field] = 0 \/ seq[i][field] = 1
            \/ \E j \in 1..(i - 1) : seq[j][field] = seq[i][field] - 1

\* Operation inputs only: TensorImpls handles over TensorAddrs storages.
OpSequences ==
    {seq \in [1..OpSeqLen -> TensorOps(1..TensorImpls, 1..TensorAddrs)] :
        FirstUse(seq, "impl_") /\ FirstUse(seq, "data_")}

\* The events at one address: allocations of 16 or 32 bytes, frees of 16 bytes,
\* and operation inputs with that data pointer, or with a null handle or pointer.
ReuseEvents ==
    {Allocation(1, sz) : sz \in {16, -16, 32}}
        \cup TensorOps(1..TensorImpls, {1}) \cup {OpInput(0, 1), OpInput(1, 0)}

ReuseSequences ==
    {seq \in [1..ReuseSeqLen -> ReuseEvents] \cup [1..ReuseSeqLen - 2 -> ReuseEvents] :
        FirstUse(seq, "impl_")}

TensorIdle ==
    /\ sorted_results = <<>>
    /\ tensors = <<>>
    /\ current_id = 0
    /\ live_storage = <<>>
    /\ tensor_set = {}
    /\ same_group_set = {}
    /\ unique_pairs = <<>>
    /\ id_map = <<>>
    /\ ids = <<>>
    /\ storage_ids = <<>>
    /\ u_i = 1
    /\ u_pc = "idle"
    /\ u_err = ""

\* calculate_unique_tensor_ids is entered with the sorted events.
TensorInit ==
    /\ sorted_results \in OpSequences \cup ReuseSequences
    /\ tensors = <<>>
    /\ current_id = 0
    /\ live_storage = <<>>
    /\ tensor_set = {}
    /\ same_group_set = {}
    /\ unique_pairs = <<>>
    /\ id_map = <<>>
    /\ ids = [i \in DOMAIN sorted_results |-> NoId]
    /\ storage_ids = [i \in DOMAIN sorted_results |-> NoId]
    /\ u_i = 1
    /\ u_pc = "flatten"
    /\ u_err = ""

\* Step 1, one event of the loop.
Flatten ==
    /\ u_pc = "flatten"
    /\ u_i <= Len(sorted_results)
    /\ LET e == sorted_results[u_i]
           data == IF e.kind = "TorchOp" THEN e.data_ ELSE e.ptr_
           skipped == e.kind = "TorchOp" /\ (e.impl_ = 0 \/ e.data_ = 0)
           id == lookup(live_storage, current_id, data)
       IN  IF skipped
             THEN UNCHANGED <<tensors, current_id, live_storage, tensor_set, storage_ids>>
             ELSE /\ tensors' = Append(tensors,
                        [impl_ |-> e.impl_, storage_id_ |-> id, ref |-> u_i])
                  /\ current_id' = lookup_next(live_storage, current_id, data)
                  /\ live_storage' =
                        IF e.kind = "TorchOp"
                          THEN lookup_insert(live_storage, current_id, data)
                          ELSE EraseFreed(lookup_insert(live_storage, current_id, data), e)
                  /\ tensor_set' = IF e.kind = "TorchOp" THEN tensor_set \cup {id}
                                   ELSE tensor_set
                  /\ storage_ids' = [storage_ids EXCEPT ![u_i] = id]
    /\ u_i' = u_i + 1
    /\ UNCHANGED <<sorted_results, same_group_set, unique_pairs, id_map, ids, u_pc, u_err,
                   corr_vars, queue_vars, tree_vars, merge_vars, ops_vars>>

\* Step 1, after the loop: drop the entries no operation input refers to.
Prune ==
    /\ u_pc = "flatten"
    /\ u_i > Len(sorted_results)
    /\ tensors' = RemoveIf(tensors, tensor_set)
    /\ u_pc' = "group"
    /\ UNCHANGED <<sorted_results, current_id, live_storage, tensor_set, same_group_set,
                   unique_pairs, id_map, ids, storage_ids, u_i, u_err,
                   corr_vars, queue_vars, tree_vars, merge_vars, ops_vars>>

\* Step 2, and the sort that opens step 3.
Group ==
    /\ u_pc = "group"
    /\ same_group_set' = SameGroup(tensors, <<>>, {})
    /\ unique_pairs' = SortPairs(same_group_set')
    /\ current_id' = 0
    /\ u_i' = 1
    /\ u_pc' = "coalesce"
    /\ UNCHANGED <<sorted_results, tensors, live_storage, tensor_set, id_map, ids,
                   storage_ids, u_err, corr_vars, queue_vars, tree_vars, merge_vars, ops_vars>>

\* Step 3, one pair of the loop.
Coalesce ==
    /\ u_pc = "coalesce"
    /\ u_i <= Len(unique_pairs)
    /\ LET i == unique_pairs[u_i]
           inserted == MapInsert(id_map, i[1], current_id)
       IN  /\ current_id' = IF i[1] \in DOMAIN id_map THEN current_id ELSE current_id + 1
           /\ id_map' = MapInsert(inserted, i[2], inserted[i[1]])
    /\ u_i' = u_i + 1
    /\ UNCHANGED <<sorted_results, tensors, live_storage, tensor_set, same_group_set,
                   unique_pairs, ids, storage_ids, u_pc, u_err,
                   corr_vars, queue_vars, tree_vars, merge_vars, ops_vars>>

\* Step 4: write the final ids back; id_map.at() throws for a missing key.
WriteBack ==
    /\ u_pc = "coalesce"
    /\ u_i > Len(unique_pairs)
    /\ IF \A j \in 1..Len(tensors) : tensors[j].storage_id_ \in DOMAIN id_map
         THEN /\ ids' = WriteBackFrom(tensors, id_map, ids, 1)
              /\ u_pc' = "done"
              /\ u_err' = u_err
         ELSE /\ ids' = ids
              /\ u_pc' = "abort"
              /\ u_err' = "id_map.at"
    /\ UNCHANGED <<sorted_results, tensors, current_id, live_storage, tensor_set,
                   same_group_set, unique_pairs, id_map, storage_ids, u_i,
                   corr_vars, queue_vars, tree_vars, merge_vars, ops_vars>>

(***************************************************************************)
(* ---------------- InputOutputEncoder ----------------------------------- *)
(***************************************************************************)
\* The IValues an operation can get as arguments. A tensor is undefined,
\* nested, or has sizes, a layout (strided or not) and, when strided, strides;
\* the strides of the model are ten times the sizes, so that a stride is never
\* taken for a size.
UndefinedTensorValue ==
    [kind |-> "Tensor", defined |-> FALSE, nested |-> FALSE, sizes |-> <<>>,
     strides |-> <<>>, strided |-> FALSE, dtype |-> ""]
NestedTensorValue ==
    [kind |-> "Tensor", defined |-> TRUE, nested |-> TRUE, sizes |-> <<>>,
     strides |-> <<>>, strided |-> FALSE, dtype |-> "float"]
TensorValue(sizes, strided) ==
    [kind |-> "Tensor", defined |-> TRUE, nested |-> FALSE, sizes |-> sizes,
     strides |-> IF strided THEN [i \in DOMAIN sizes |-> 10 * sizes[i]] ELSE <<>>,
     strided |-> strided, dtype |-> "float"]
ScalarValue(v) == [kind |-> "Scalar", v |-> v]
TensorListValue == [kind |-> "TensorList"]
OtherValue == [kind |-> "Other"]

\* The encoder: tags_, tensor_metadata_, tensor_sizes_strides_, ivalues_.
EmptyEncoder ==
    [tags_ |-> <<>>, tensor_metadata_ |-> <<>>, tensor_sizes_strides_ |-> <<>>,
     ivalues_ |-> <<>>]

\* TensorMetadata(t): the fields the decoder reads.
TensorMetadata(t) == [dim_ |-> Len(t.sizes), strided |-> t.strided, dtype_ |-> t.dtype]

\* InputOutputEncoder::push(const at::Tensor&).
push_tensor(E, t) ==
    IF t.defined /\ ~t.nested
      THEN [E EXCEPT !.tags_ = Append(@, "Tensor"),
                     !.tensor_metadata_ = Append(@, TensorMetadata(t)),
                     !.tensor_sizes_strides_ =
                         IF t.strided THEN @ \o t.sizes \o t.strides ELSE @ \o t.sizes]
      ELSE [E EXCEPT !.tags_ = Append(@, "UndefinedTensor")]

\* InputOutputEncoder::push(ArrayRef<const IValue>), one value of the loop.
push_value(E, value) ==
    IF value.kind = "Tensor" THEN push_tensor(E, value)
    ELSE IF value.kind = "Scalar"
      THEN [E EXCEPT !.tags_ = Append(@, "Scalar"), !.ivalues_ = Append(@, value)]
    ELSE IF value.kind = "TensorList"
      THEN [E EXCEPT !.tags_ = @ \o <<"TensorListBegin", "TERMINATOR">>]
    ELSE [E EXCEPT !.tags_ = Append(@, "Other")]

RECURSIVE push_values(_, _, _)
push_values(E, values, i) ==
    IF i > Len(values) THEN E ELSE push_values(push_value(E, values[i]), values, i + 1)

\* InputOutputEncoder::push(ArrayRef<const IValue>).
push(E, values) ==
    LET E1 == push_values(E, values, 1)
    IN  [E1 EXCEPT !.tags_ = Append(@, "TERMINATOR")]

\* struct Inputs, empty, and the empty entries of its vectors.
NoIValue == [kind |-> "None"]
NoMetadata == <<>>
EmptyInputs ==
    [shapes_ |-> <<>>, strides_ |-> <<>>, ivalues_ |-> <<>>, dtypes_ |-> <<>>,
     tensor_metadata_ |-> <<>>]

\* The iterators the getter captures: places from 1, Len + 1 is end().
BeginCursor == [tag_it |-> 1, tensor_metadata_it |-> 1, tensor_size_strides_it |-> 1,
                ivals_it |-> 1]

\* A plausible slip: the tags of a tensor list are not skipped.
SkipTensorListNone(tags, it) == it

\* case Tag::TensorListBegin: while (*(++tag_it) != Tag::TERMINATOR) {}.
RECURSIVE SkipTensorList(_, _)
SkipTensorList(tags, it) ==
    IF it + 1 > Len(tags) \/ tags[it + 1] = "TERMINATOR" THEN it + 1
    ELSE SkipTensorList(tags, it + 1)

\* out.x.emplace_back(v) on three of the vectors of Inputs.
EmplaceEntry(o, dtype, ivalue, metadata) ==
    [o EXCEPT !.dtypes_ = Append(@, dtype), !.ivalues_ = Append(@, ivalue),
              !.tensor_metadata_ = Append(@, metadata)]

\* out.shapes_.back() and out.strides_.back() after the pushes of a tensor.
SetBack(o, shape, stride) ==
    [o EXCEPT !.shapes_[Len(o.shapes_)] = shape, !.strides_[Len(o.strides_)] = stride]

\* The getter's loop: while (!terminate && tag_it != tags_.end()).
RECURSIVE getter_loop(_, _, _, _)
getter_loop(E, c, o, terminate) ==
    IF terminate \/ c.tag_it > Len(E.tags_) THEN [inputs |-> o, cursor |-> c]
    ELSE
      LET o1 == [o EXCEPT !.shapes_ = Append(@, <<>>), !.strides_ = Append(@, <<>>)]
          tag == E.tags_[c.tag_it]
          next(cc) == [cc EXCEPT !.tag_it = @ + 1]
      IN  IF tag = "Tensor" THEN
            LET md == E.tensor_metadata_[c.tensor_metadata_it]
                s0 == c.tensor_size_strides_it
                shape == SubSeq(E.tensor_sizes_strides_, s0, s0 + md.dim_ - 1)
                s1 == s0 + md.dim_
                stride == IF md.strided
                            THEN SubSeq(E.tensor_sizes_strides_, s1, s1 + md.dim_ - 1)
                            ELSE <<>>
                s2 == IF md.strided THEN s1 + md.dim_ ELSE s1
                c1 == [c EXCEPT !.tensor_metadata_it = @ + 1,
                                !.tensor_size_strides_it = s2]
            IN  getter_loop(E, next(c1),
                            EmplaceEntry(SetBack(o1, shape, stride), md.dtype_, NoIValue, <<md>>),
                            FALSE)
          ELSE IF tag = "TensorListBegin" THEN
            getter_loop(E, next([c EXCEPT !.tag_it = SkipTensorList(E.tags_, c.tag_it)]),
                        EmplaceEntry(o1, "TensorList", NoIValue, NoMetadata), FALSE)
          ELSE IF tag = "Scalar" THEN
            getter_loop(E, next([c EXCEPT !.ivals_it = @ + 1]),
                        EmplaceEntry(o1, "Scalar", E.ivalues_[c.ivals_it], NoMetadata),
                        FALSE)
          ELSE IF tag \in {"UndefinedTensor", "Other"} THEN
            getter_loop(E, next(c), EmplaceEntry(o1, "", NoIValue, NoMetadata), FALSE)
          ELSE \* Tag::TERMINATOR: shapes_.pop_back(), strides_.pop_back()
            getter_loop(E, next(c), o, TRUE)

\* One call of the lambda getNextShapesAndDtypes returns: the Inputs and the
\* iterators it leaves.
input_getter(E, c) == getter_loop(E, c, EmptyInputs, FALSE)

(***************************************************************************)
(* ---------------- begin_op and TorchOpStorage::materialize ------------- *)
(***************************************************************************)
Scopes == {"FUNCTION", "BACKWARD_FUNCTION", "USER_SCOPE"}

\* The ProfilerConfig flags begin_op reads.
Configs ==
    [report_input_shapes : BOOLEAN, with_stack : BOOLEAN, with_modules : BOOLEAN,
     with_flops : BOOLEAN]

\* A RecordFunction: its scope, whether its name starts with
\* "autograd::engine::evaluate_function: ", its inputs, and the number of the
\* call, from which the model derives the values that only get copied:
\* seqNr(), forwardThreadId(), the current call stack and module hierarchy,
\* and the extra arguments.
RecordFunction(scope, evaluate, inputs, call) ==
    [scope |-> scope, evaluate |-> evaluate, inputs |-> inputs, call |-> call]
seqNr(fn) == 100 + fn.call
forwardThreadId(fn) == 200 + fn.call
callstackStr(fn) == <<"stack", fn.call>>
currentModuleHierarchy(fn) == <<"modules", fn.call>>
saveExtraArgs(fn) == <<"extra_args", fn.call>>

\* op_events_.emplace_back(seqNr, forwardThreadId, scope, ..., name).
OpEvent(fn) ==
    [sequence_number_ |-> seqNr(fn), forward_tid_ |-> forwardThreadId(fn),
     scope_ |-> fn.scope, evaluate |-> fn.evaluate]

\* begin_op: what it leaves in the TorchOpStorage S.
begin_op(S, config, fn) ==
    LET traced == fn.scope # "BACKWARD_FUNCTION"
    IN  [op_events_ |-> Append(S.op_events_, OpEvent(fn)),
         inputs_outputs_ |-> IF config.report_input_shapes
                               THEN push(S.inputs_outputs_, fn.inputs)
                               ELSE S.inputs_outputs_,
         jit_stack_ |-> IF config.with_stack /\ traced
                          THEN Append(S.jit_stack_, callstackStr(fn)) ELSE S.jit_stack_,
         jit_modules_ |-> IF config.with_modules /\ traced
                            THEN Append(S.jit_modules_, currentModuleHierarchy(fn))
                            ELSE S.jit_modules_,
         extra_args_ |-> IF config.with_flops
                           THEN Append(S.extra_args_, saveExtraArgs(fn))
                           ELSE S.extra_args_]

\* A plausible slip: the autograd info is not plumbed.
PlumbNone(events, i) == events

\* materialize, the first loop from the pair (i, i + 1) on: a FUNCTION event
\* named evaluate_function takes sequence number and forward thread id of the
\* BACKWARD_FUNCTION event that follows it.
RECURSIVE Plumb(_, _)
Plumb(events, i) ==
    IF i + 1 > Len(events) THEN events
    ELSE IF /\ events[i].scope_ = "FUNCTION"
            /\ events[i + 1].scope_ = "BACKWARD_FUNCTION"
            /\ events[i].evaluate
      THEN Plumb([events EXCEPT ![i].sequence_number_ = events[i + 1].sequence_number_,
                                ![i].forward_tid_ = events[i + 1].forward_tid_], i + 1)
      ELSE Plumb(events, i + 1)

\* StealOrDefault::operator(): the value (<<>>: value-initialized) for the
\* iterator at place it.
StealOrDefault(container, it) ==
    IF it > Len(container) THEN <<>> ELSE container[it]

\* StealOrDefault::operator(): the iterator afterwards.
StealNext(container, it) == IF it > Len(container) THEN it ELSE it + 1

\* materialize, the second loop from event i on; it holds the iterators of the
\* input getter and of the three StealOrDefault objects.
RECURSIVE materialize_from(_, _, _, _, _)
materialize_from(S, events, i, it, acc) ==
    IF i > Len(events) THEN acc
    ELSE LET g == input_getter(S.inputs_outputs_, it.inputs)
             e == [basic_fields_ |-> events[i],
                   inputs_ |-> g.inputs,
                   jit_stack_ |-> StealOrDefault(S.jit_stack_, it.stack),
                   jit_modules_ |-> StealOrDefault(S.jit_modules_, it.modules),
                   extra_args_ |-> StealOrDefault(S.extra_args_, it.extra)]
         IN  materialize_from(S, events, i + 1,
                 [inputs |-> g.cursor,
                  stack |-> StealNext(S.jit_stack_, it.stack),
                  modules |-> StealNext(S.jit_modules_, it.modules),
                  extra |-> StealNext(S.extra_args_, it.extra)],
                 Append(acc, e))

\* TorchOpStorage::materialize: the ops appended to out.
materialize(S) ==
    materialize_from(S, Plumb(S.op_events_, 1), 1,
                     [inputs |-> BeginCursor, stack |-> 1, modules |-> 1, extra |-> 1],
                     <<>>)

EmptyStorage ==
    [op_events_ |-> <<>>, inputs_outputs_ |-> EmptyEncoder, jit_stack_ |-> <<>>,
     jit_modules_ |-> <<>>, extra_args_ |-> <<>>]

\* ---- inputs ----
\* The argument values of the encoder runs.
RECURSIVE SeqsUpTo(_, _)
SeqsUpTo(S, n) ==
    IF n = 0 THEN {<<>>}
    ELSE LET shorter == SeqsUpTo(S, n - 1)
         IN  shorter \cup {Append(s, x) : s \in {q \in shorter : Len(q) = n - 1}, x \in S}

EncSizes == SeqsUpTo({2, 3}, EncDim)
EncValues ==
    {UndefinedTensorValue, NestedTensorValue, TensorListValue, OtherValue}
        \cup {TensorValue(s, b) : s \in EncSizes, b \in BOOLEAN}
        \cup {ScalarValue(v) : v \in {7, 8}}
EncArgLists == SeqsUpTo(EncValues, EncArgs)

\* The argument lists of the begin_op runs: none, a scalar, a tensor list
\* followed by a strided tensor.
OpArgLists ==
    {<<>>, <<ScalarValue(7)>>, <<TensorListValue, TensorValue(<<2>>, TRUE)>>}

\* The RecordFunctions of call number n.
RecordFunctions(n) ==
    {fn \in {RecordFunction(s, ev, a, n) :
                s \in Scopes, ev \in BOOLEAN, a \in OpArgLists} :
        fn.evaluate => fn.scope = "FUNCTION"}

\* No subqueue and no encoder is in use.
OpsIdle ==
    /\ config_ = [report_input_shapes |-> FALSE, with_stack |-> FALSE,
                  with_modules |-> FALSE, with_flops |-> FALSE]
    /\ torch_ops_ = EmptyStorage
    /\ calls = <<>>
    /\ ops_out = <<>>
    /\ ops_pc = "idle"
    /\ pushed = <<>>
    /\ getter_it = BeginCursor
    /\ decoded = <<>>

\* A subqueue with any configuration, before the first op.
OpsInit ==
    /\ config_ \in Configs
    /\ torch_ops_ = EmptyStorage
    /\ calls = <<>>
    /\ ops_out = <<>>
    /\ ops_pc = "collect"
    /\ pushed = <<>>
    /\ getter_it = BeginCursor
    /\ decoded = <<>>

\* An encoder on its own, before the first push.
EncoderInit ==
    /\ config_ = [report_input_shapes |-> TRUE, with_stack |-> FALSE,
                  with_modules |-> FALSE, with_flops |-> FALSE]
    /\ torch_ops_ = EmptyStorage
    /\ calls = <<>>
    /\ ops_out = <<>>
    /\ ops_pc = "push"
    /\ pushed = <<>>
    /\ getter_it = BeginCursor
    /\ decoded = <<>>

\* ---- actions ----
\* ThreadLocalSubqueue::begin_op.
BeginOp ==
    /\ ops_pc = "collect"
    /\ Len(calls) < OpCalls
    /\ \E fn \in RecordFunctions(Len(calls) + 1) :
          /\ torch_ops_' = begin_op(torch_ops_, config_, fn)
          /\ calls' = Append(calls, fn)
          /\ pushed' = IF config_.report_input_shapes
                         THEN Append(pushed, fn.inputs) ELSE pushed
    /\ UNCHANGED <<config_, ops_out, ops_pc, getter_it, decoded,
                   corr_vars, queue_vars, tree_vars, tensor_vars, merge_vars>>

\* TorchOpStorage::materialize, with the clear() calls at its end and those of
\* the StealOrDefault destructors.
Materialize ==
    /\ ops_pc = "collect"
    /\ ops_out' = ops_out \o materialize(torch_ops_)
    /\ torch_ops_' = EmptyStorage
    /\ ops_pc' = "done"
    /\ UNCHANGED <<config_, calls, pushed, getter_it, decoded,
                   corr_vars, queue_vars, tree_vars, tensor_vars, merge_vars>>

\* InputOutputEncoder::push.
EncoderPush ==
    /\ ops_pc = "push"
    /\ Len(pushed) < EncPushes
    /\ \E values \in EncArgLists :
          /\ torch_ops_' = [torch_ops_ EXCEPT !.inputs_outputs_ = push(@, values)]
          /\ pushed' = Append(pushed, values)
    /\ UNCHANGED <<config_, calls, ops_out, ops_pc, getter_it, decoded,
                   corr_vars, queue_vars, tree_vars, tensor_vars, merge_vars>>

\* InputOutputEncoder::getNextShapesAndDtypes: the getter is created.
GetNextShapesAndDtypes ==
    /\ ops_pc = "push"
    /\ getter_it' = BeginCursor
    /\ ops_pc' = "decode"
    /\ UNCHANGED <<config_, torch_ops_, calls, ops_out, pushed, decoded,
                   corr_vars, queue_vars, tree_vars, tensor_vars, merge_vars>>

\* One call of the getter; one more call than there were pushes is made.
InputGetter ==
    /\ ops_pc = "decode"
    /\ Len(decoded) <= Len(pushed)
    /\ LET g == input_getter(torch_ops_.inputs_outputs_, getter_it)
       IN  /\ decoded' = Append(decoded, g.inputs)
           /\ getter_it' = g.cursor
    /\ UNCHANGED <<config_, torch_ops_, calls, ops_out, ops_pc, pushed,
                   corr_vars, queue_vars, tree_vars, tensor_vars, merge_vars>>

(***************************************************************************)
(* ---------------- Specifications --------------------------------------- *)
(***************************************************************************)
CorrNext == \E t \in CThreads : MaybeGrow(t) \/ EmplaceBack(t)

CorrSpecInit == CorrInit /\ QueueInit /\ TreeIdle /\ TensorIdle /\ MergeIdle /\ OpsIdle

SpecCorr == CorrSpecInit /\ [][CorrNext]_vars

QueueNext ==
    \/ \E s \in Slots : NewRecordQueue(s) \/ DeleteRecordQueue(s)
    \/ \E t \in QThreads, s \in Slots : GetSubqueueCached(t, s) \/ GetSubqueueMiss(t, s)
    \/ \E t \in QThreads : GetSubqueueLock(t) \/ GetSubqueueFind(t) \/ GetSubqueueStore(t)

QueueSpecInit == CorrInit /\ QueueInit /\ TreeIdle /\ TensorIdle /\ MergeIdle /\ OpsIdle

SpecQueue == QueueSpecInit /\ [][QueueNext]_vars

TreeNext == AddKinetoEvents \/ StableSort \/ BuildPop \/ BuildPush \/ BuildReturn

TreeSpecInit == CorrInit /\ QueueInit /\ TreeInit /\ TensorIdle /\ OpsIdle

SpecTree == TreeSpecInit /\ [][TreeNext]_vars

MergeNext ==
    \/ PassEventsToKineto \/ StopTrace \/ Reassociate \/ ExtractEventsFromTrace
    \/ AddKinetoEvents \/ StableSort \/ BuildPop \/ BuildPush \/ BuildReturn

MergeSpecInit == CorrInit /\ QueueInit /\ MergeInit /\ TensorIdle /\ OpsIdle

SpecMerge == MergeSpecInit /\ [][MergeNext]_vars

TensorNext == Flatten \/ Prune \/ Group \/ Coalesce \/ WriteBack

TensorSpecInit == CorrInit /\ QueueInit /\ TreeIdle /\ TensorInit /\ MergeIdle /\ OpsIdle

SpecTensor == TensorSpecInit /\ [][TensorNext]_vars

OpsNext == BeginOp \/ Materialize

OpsSpecInit == CorrInit /\ QueueInit /\ TreeIdle /\ TensorIdle /\ MergeIdle /\ OpsInit

SpecOps == OpsSpecInit /\ [][OpsNext]_vars

EncoderNext == EncoderPush \/ GetNextShapesAndDtypes \/ InputGetter

EncoderSpecInit == CorrInit /\ QueueInit /\ TreeIdle /\ TensorIdle /\ MergeIdle /\ EncoderInit

SpecEncoder == EncoderSpecInit /\ [][EncoderNext]_vars

(***************************************************************************)
(* ---------------- Claims about correlation ids ------------------------- *)
(***************************************************************************)
Issued == UNION {{<<t, i>> : i \in 1..Len(corr_ids[t])} : t \in CThreads}

\* C1: all correlation ids issued, by any number of threads appending to their
\* own subqueue, are nonzero and pairwise distinct, and each one is the base
\* 1 + ChunkSize*k of a block constructed so far plus an index inside the block.
C1_CorrelationIdsDistinct ==
    /\ \A e \in Issued : corr_ids[e[1]][e[2]] # 0
    /\ \A e, f \in Issued : e # f => corr_ids[e[1]][e[2]] # corr_ids[f[1]][f[2]]
    /\ \A e \in Issued : \E k \in 0..(counter_ - 1) :
          corr_ids[e[1]][e[2]] - (1 + ChunkSize * k) \in 0..(ChunkSize - 1)

\* Two threads have each filled a block and started another one, and their
\* blocks interleave in the order of construction.
C1_Witness ==
    \E t, u \in CThreads :
        /\ t # u
        /\ Len(corr_ids[t]) > ChunkSize
        /\ Len(corr_ids[u]) > ChunkSize
        /\ corr_ids[t][1] < corr_ids[u][1]
        /\ corr_ids[u][1] < corr_ids[t][Len(corr_ids[t])]

(***************************************************************************)
(* ---------------- Claims about getSubqueue ----------------------------- *)
(***************************************************************************)
\* The last return of thread t came from a RecordQueue that is still alive.
RetCurrent(t) ==
    /\ q_ret[t].slot # 0
    /\ live[q_ret[t].slot]
    /\ id_[q_ret[t].slot] = q_ret[t].id

\* C2: getSubqueue on RecordQueue S called by thread T returns the subqueue that
\* S's own directory holds for T, never a pointer left in the thread's cache by
\* another (possibly destroyed) RecordQueue nor the initial null entry.
C2_ReturnsOwnSubqueue ==
    \A t \in QThreads :
        RetCurrent(t) =>
            /\ currentThreadId(t) \in DOMAIN sub_queues_[q_ret[t].slot]
            /\ q_ret[t].ptr = sub_queues_[q_ret[t].slot][currentThreadId(t)]
            /\ q_ret[t].ptr # NULL

\* A call found in the cache the entry of a RecordQueue that no longer exists,
\* whose dangling pointer is the very address the new subqueue was allocated at.
C2_Witness ==
    \E t \in QThreads :
        /\ RetCurrent(t)
        /\ ~q_ret[t].hit
        /\ q_ret[t].old.key_ # 0
        /\ \A s \in Slots : live[s] => id_[s] # q_ret[t].old.key_
        /\ q_ret[t].old.ref_ = q_ret[t].ptr

\* C3: per RecordQueue exactly one subqueue is constructed per thread id, two
\* threads never receive the same subqueue, and each call of a thread returns the
\* subqueue its first call on that RecordQueue returned.
C3_OneSubqueuePerThread ==
    /\ \A s \in Slots, t \in QThreads :
          live[s] => q_made[s][currentThreadId(t)] =
                        IF currentThreadId(t) \in DOMAIN sub_queues_[s] THEN 1 ELSE 0
    /\ \A t, u \in QThreads :
          (t # u /\ RetCurrent(t) /\ RetCurrent(u) /\ q_ret[t].slot = q_ret[u].slot)
              => q_ret[t].ptr # q_ret[u].ptr
    /\ \A t \in QThreads :
          RetCurrent(t) => q_ret[t].ptr = q_first[q_ret[t].slot][t]

\* A thread came back to a RecordQueue through the locked path (it had called
\* another RecordQueue in between) while a second thread holds a subqueue there.
C3_Witness ==
    \E t, u \in QThreads :
        /\ t # u
        /\ RetCurrent(t)
        /\ q_ret[t].again
        /\ ~q_ret[t].hit
        /\ q_first[q_ret[t].slot][u] # NULL

(***************************************************************************)
(* ---------------- Claims about the forest ------------------------------ *)
(***************************************************************************)
Events == DOMAIN results
Done == t_pc = "done"
StartOf(e) == results[e].start_time_ns_
EndOf(e) == endTimeNS(results, e)
ParentOf(e) == results[e].parent_
ChildrenOf(e) == results[e].children_

\* The parent starts no later and ends no earlier than the child.
Contains(p, c) == StartOf(p) <= StartOf(c) /\ EndOf(c) <= EndOf(p)

\* Only operation events, with recorded end times at or after the start and no
\* forward thread ids.
PlainOps ==
    \A e \in Events :
        /\ results[e].kind = "TorchOp"
        /\ results[e].forward_tid_ = 0
        /\ results[e].end_time_ns_ >= StartOf(e)

RecordedDisjoint(a, b) ==
    \/ results[a].end_time_ns_ < StartOf(b)
    \/ results[b].end_time_ns_ < StartOf(a)

\* a starts after b and ends no later than b.
RecordedInside(a, b) ==
    StartOf(b) < StartOf(a) /\ results[a].end_time_ns_ <= results[b].end_time_ns_

\* On every thread the intervals are pairwise disjoint or nested, and nested
\* intervals have different start times.
NoPartialOverlap ==
    \A a, b \in Events :
        a # b /\ results[a].start_tid_ = results[b].start_tid_
            => RecordedDisjoint(a, b) \/ RecordedInside(a, b) \/ RecordedInside(b, a)

\* C4, as stated: in the returned forest every parent's interval contains the
\* interval of each of its children, whatever the input and whoever attached the
\* child.
C4_IntervalContainment ==
    Done => \A c \in Events : ParentOf(c) # 0 => Contains(ParentOf(c), c)

\* C4, amended: a child attached by build_tree never starts before its parent;
\* and in the returned forest every parent's interval contains each child's
\* when the input is operation events with recorded end times at or after the
\* start, without forward thread ids, whose intervals on each thread are pairwise
\* disjoint or nested with different start times.
C4_ContainmentWhenNested ==
    /\ \A c \in Events :
          results[c].by = "build" => StartOf(ParentOf(c)) <= StartOf(c)
    /\ Done /\ PlainOps /\ NoPartialOverlap
          => \A c \in Events : ParentOf(c) # 0 => Contains(ParentOf(c), c)

\* C4's case: a returned forest of properly nested events three levels deep.
C4_Witness ==
    /\ Done /\ PlainOps /\ NoPartialOverlap
    /\ \E c \in Events :
          /\ ParentOf(c) # 0 /\ ParentOf(ParentOf(c)) # 0
          /\ EndOf(c) < EndOf(ParentOf(c))

StrictlyInside(a, b) ==
    StartOf(b) < StartOf(a) /\ results[a].end_time_ns_ < results[b].end_time_ns_

OneThreadNested ==
    /\ \A e \in Events :
          /\ results[e].kind = "TorchOp"
          /\ results[e].forward_tid_ = 0
          /\ results[e].start_tid_ = results[1].start_tid_
          /\ StartOf(e) < results[e].end_time_ns_
    /\ \A a, b \in Events :
          a # b => RecordedDisjoint(a, b) \/ StrictlyInside(a, b) \/ StrictlyInside(b, a)

Enclosers(c) == {p \in Events : StrictlyInside(c, p)}

\* The innermost event whose interval encloses c; 0 when there is none.
InnermostEncloser(c) ==
    IF Enclosers(c) = {} THEN 0
    ELSE CHOOSE p \in Enclosers(c) : \A q \in Enclosers(c) : StartOf(q) <= StartOf(p)

\* The child list of p holds exactly the events whose parent is p, once each,
\* in increasing start time.
ChildrenInStartOrder(p) ==
    /\ {ChildrenOf(p)[i] : i \in 1..Len(ChildrenOf(p))} = {c \in Events : ParentOf(c) = p}
    /\ \A i, j \in 1..Len(ChildrenOf(p)) :
          i < j => StartOf(ChildrenOf(p)[i]) < StartOf(ChildrenOf(p)[j])

\* C6: for events of one thread whose intervals are pairwise disjoint or strictly
\* nested, build_tree makes the innermost enclosing event the parent, makes an
\* event enclosed by none a root, and lists children in start-time order; no
\* assertion of getRecords fails on the way.
C6_InnermostEncloserIsParent ==
    OneThreadNested =>
        /\ t_pc # "abort"
        /\ Done => \A e \in Events :
                      ParentOf(e) = InnermostEncloser(e) /\ ChildrenInStartOrder(e)

\* C6's case: A:[0,100], B:[10,50], C:[60,90], drained as C, A, B, came out as
\* root A with children B then C.
C6_Witness ==
    /\ Done
    /\ StartOf(1) = 60 /\ results[1].end_time_ns_ = 90
    /\ StartOf(2) = 0 /\ results[2].end_time_ns_ = 100
    /\ StartOf(3) = 10 /\ results[3].end_time_ns_ = 50
    /\ ParentOf(2) = 0 /\ ChildrenOf(2) = <<3, 1>>
    /\ ParentOf(1) = 2 /\ ParentOf(3) = 2

\* Position of event e in out.
PositionOf(e) == CHOOSE i \in 1..Len(out) : out[i] = e

\* C7: after the sort, out is in start order and events with equal start times
\* are in drain order (an event's id is its drain index); and the children that
\* build_tree attached to one parent are listed in the order of the sorted out.
C7_StableSiblingOrder ==
    t_pc \in {"build", "done"} =>
        /\ {out[i] : i \in 1..Len(out)} = Events
        /\ \A i, j \in 1..Len(out) :
              i < j => \/ StartOf(out[i]) < StartOf(out[j])
                       \/ StartOf(out[i]) = StartOf(out[j]) /\ out[i] < out[j]
        /\ \A p \in Events : \A i, j \in 1..Len(ChildrenOf(p)) :
              /\ i < j
              /\ results[ChildrenOf(p)[i]].by = "build"
              /\ results[ChildrenOf(p)[j]].by = "build"
              => PositionOf(ChildrenOf(p)[i]) < PositionOf(ChildrenOf(p)[j])

\* C7's case: two siblings attached by build_tree with equal start times, in a
\* forest built from a drained list that the sort had to reorder.
C7_Witness ==
    /\ Done
    /\ \E i \in 1..Len(out) : out[i] # i
    /\ \E p \in Events : \E i, j \in 1..Len(ChildrenOf(p)) :
          /\ i < j
          /\ results[ChildrenOf(p)[i]].by = "build"
          /\ results[ChildrenOf(p)[j]].by = "build"
          /\ StartOf(ChildrenOf(p)[i]) = StartOf(ChildrenOf(p)[j])

(***************************************************************************)
(* ---------------- Claims about the tensor ids -------------------------- *)
(***************************************************************************)
TensorEvents == DOMAIN sorted_results
TensorDone == u_pc = "done"
IsAlloc(i) == sorted_results[i].kind = "Allocation" /\ sorted_results[i].alloc_size_ > 0
IsFree(i) == sorted_results[i].kind = "Allocation" /\ sorted_results[i].alloc_size_ < 0
IsInput(i) ==
    /\ sorted_results[i].kind = "TorchOp"
    /\ sorted_results[i].impl_ # 0 /\ sorted_results[i].data_ # 0

\* Two allocations at one address with a free of that address between them.
Reused(a, b) ==
    /\ a < b /\ IsAlloc(a) /\ IsAlloc(b)
    /\ sorted_results[a].ptr_ = sorted_results[b].ptr_
    /\ \E f \in TensorEvents :
          a < f /\ f < b /\ IsFree(f) /\ sorted_results[f].ptr_ = sorted_results[a].ptr_

\* The storage ids that a chain of pairs of same_group_set joins to those of S.
RECURSIVE Joined(_, _)
Joined(S, n) ==
    IF n = 0 THEN S
    ELSE Joined(S \cup {p[1] : p \in {q \in same_group_set : q[2] \in S}}
                  \cup {p[2] : p \in {q \in same_group_set : q[1] \in S}}, n - 1)

SameGroupChain(x, y) == y \in Joined({x}, Cardinality(same_group_set))

\* C8, as stated: two allocations at one address separated by a free of that
\* address never receive the same buffer identity, whatever operation inputs
\* occur.
C8_ReusedAddressDistinctIds ==
    TensorDone =>
        \A a, b \in TensorEvents :
            Reused(a, b) => ~(ids[a] # NoId /\ ids[a] = ids[b])

\* C8, amended: two allocations at one address separated by a free of that
\* address are given different storage ids in step 1, and they receive the same
\* buffer identity only if a chain of same-TensorImpl pairs joins their storage
\* ids.
C8_ReusedAddressDistinctUnlessJoined ==
    \A a, b \in TensorEvents :
        Reused(a, b) /\ storage_ids[b] # NoId =>
            /\ storage_ids[a] # storage_ids[b]
            /\ TensorDone /\ ids[a] # NoId /\ ids[a] = ids[b]
                  => SameGroupChain(storage_ids[a], storage_ids[b])

\* C8's case: two allocations at one address separated by a free, each referred
\* to by an operation input, have received different buffer identities.
C8_Witness ==
    /\ TensorDone
    /\ \E a, b \in TensorEvents :
          Reused(a, b) /\ ids[a] # NoId /\ ids[b] # NoId /\ ids[a] # ids[b]

\* The sequence of C9: allocation of 16 bytes at X, free of X, allocation of 32
\* bytes at X.
AllocFreeAlloc ==
    sorted_results = <<Allocation(1, 16), Allocation(1, -16), Allocation(1, 32)>>

\* The same with an operation input at X after each allocation, through
\* different TensorImpls.
AllocUseFreeAllocUse ==
    sorted_results = <<Allocation(1, 16), OpInput(1, 1), Allocation(1, -16),
                       Allocation(1, 32), OpInput(2, 1)>>

\* C9, as stated: for allocation, free, allocation at one address each of the two
\* allocations is given a buffer identity, and the two differ.
C9_BothAllocationsIdentified ==
    TensorDone /\ AllocFreeAlloc =>
        ids[1] # NoId /\ ids[3] # NoId /\ ids[1] # ids[3]

\* C9, amended: for allocation, free, allocation at one address the two
\* allocations get different storage ids but no buffer identity, since an
\* allocation receives an identity exactly when an operation input refers to its
\* storage; with an operation input after each allocation, through different
\* TensorImpls, both receive identities and these differ. id_map.at never fails.
C9_IdentifiedOnlyWhenReferenced ==
    /\ u_pc # "abort"
    /\ TensorDone =>
          /\ \A i \in TensorEvents :
                sorted_results[i].kind = "Allocation"
                    => (ids[i] # NoId <=> storage_ids[i] \in tensor_set)
          /\ AllocFreeAlloc =>
                /\ storage_ids[1] # storage_ids[3]
                /\ \A i \in TensorEvents : ids[i] = NoId
          /\ AllocUseFreeAllocUse =>
                ids[1] # NoId /\ ids[4] # NoId /\ ids[1] # ids[4]

\* C9's case: calculate_unique_tensor_ids has finished on allocation, free,
\* allocation.
C9_Witness == TensorDone /\ AllocFreeAlloc /\ storage_ids[3] = 1

\* C10: any two operation inputs with the same TensorImpl address receive the
\* same final buffer identity.
C10_SameHandleSameId ==
    TensorDone =>
        \A i, j \in TensorEvents :
            /\ IsInput(i) /\ IsInput(j)
            /\ sorted_results[i].impl_ = sorted_results[j].impl_
            => ids[i] = ids[j]

\* The data address of an operation input or the address of an allocation record.
AddressOf(i) ==
    IF sorted_results[i].kind = "TorchOp" THEN sorted_results[i].data_
    ELSE sorted_results[i].ptr_

\* Two operation inputs through different TensorImpls at one storage address,
\* with no free of that address between them.
Aliases(i, j) ==
    /\ i < j /\ IsInput(i) /\ IsInput(j)
    /\ sorted_results[i].impl_ # sorted_results[j].impl_
    /\ sorted_results[i].data_ = sorted_results[j].data_
    /\ ~\E f \in TensorEvents :
          i < f /\ f < j /\ IsFree(f) /\ sorted_results[f].ptr_ = sorted_results[i].data_

\* C11: two operation inputs with different TensorImpl addresses and the same
\* storage address, with no free of that address between them, receive the same
\* final buffer identity.
C11_AliasesShareIdentity ==
    TensorDone =>
        \A i, j \in TensorEvents :
            Aliases(i, j) => ids[i] # NoId /\ ids[i] = ids[j]

\* C11's case: two aliasing operation inputs have received one identity while
\* another storage of the same sequence has received a different one.
C11_Witness ==
    /\ TensorDone
    /\ \E i, j, k \in TensorEvents :
          Aliases(i, j) /\ ids[i] = ids[j] /\ ids[k] # NoId /\ ids[k] # ids[i]

\* Some operation input (non-null TensorImpl and data) has the storage id s.
Referenced(s) == \E i \in TensorEvents : IsInput(i) /\ storage_ids[i] = s

\* C12: an allocation or free record whose storage id no operation input has is
\* left without a buffer identity, and one whose storage id some operation input
\* has always receives one.
C12_IdentityIffReferenced ==
    TensorDone =>
        \A r \in TensorEvents :
            sorted_results[r].kind = "Allocation"
                => (ids[r] = NoId <=> ~Referenced(storage_ids[r]))

\* C12's case: in one finished run an allocation record was left without an
\* identity and another allocation record, referenced by an operation input,
\* received one.
C12_Witness ==
    /\ TensorDone
    /\ \E r, q \in TensorEvents :
          /\ IsAlloc(r) /\ ids[r] = NoId /\ ~Referenced(storage_ids[r])
          /\ IsAlloc(q) /\ ids[q] # NoId /\ Referenced(storage_ids[q])

(***************************************************************************)
(* ---------------- Claims about the external-trace merge ---------------- *)
(***************************************************************************)
\* setParents has run without a failed assertion.
Merged == t_pc \in {"sort", "build", "done"}

IsFlowStart(e) ==
    /\ results[e].kind = "Kineto"
    /\ results[e].flow.type = kLinkAsyncCpuGpu /\ results[e].flow.start

\* e is a non-start member of the async CPU-to-device flow that s starts.
ContinuesFlowOf(e, s) ==
    /\ results[e].kind = "Kineto" /\ IsFlowStart(s)
    /\ results[e].flow.type = kLinkAsyncCpuGpu /\ ~results[e].flow.start
    /\ results[e].flow.id = results[s].flow.id
    /\ \A s2 \in Events : IsFlowStart(s2) /\ results[s2].flow.id = results[s].flow.id => s2 = s

Occurrences(seq, x) == Cardinality({i \in 1..Len(seq) : seq[i] = x})

\* C13: after the merge, an external activity with a linked activity L that
\* continues the flow started by S, S different from L, has S as parent and is
\* in the child list of S (once) and not in that of L.
C13_FlowStartBeatsLinked ==
    Merged =>
        \A e, s \in Events :
            LET l == results[e].linked_activity_
            IN  ContinuesFlowOf(e, s) /\ l # 0 /\ l # s
                    => /\ ParentOf(e) = s
                       /\ Occurrences(ChildrenOf(s), e) = 1
                       /\ Occurrences(ChildrenOf(l), e) = 0

\* C13's case: getRecords has returned, and an activity placed before its flow
\* start in the result list, linked to another event, was attached to the flow
\* start.
C13_Witness ==
    /\ Done
    /\ \E e, s \in Events :
          /\ ContinuesFlowOf(e, s) /\ e < s
          /\ results[e].linked_activity_ \notin {0, s}
          /\ ParentOf(e) = s

(***************************************************************************)
(* ---------------- Claims about unset end times and finalization -------- *)
(***************************************************************************)
\* An operation event without a recorded end that build_tree gave a parent.
UnsetWithParent(e) ==
    /\ results[e].kind = "TorchOp"
    /\ results[e].end_time_ns_ = UnsetTime
    /\ ParentOf(e) # 0

\* C14: after getRecords returns, every operation event whose recorded end is
\* the unset sentinel and which has a parent reports its parent's end time as
\* its own, whichever thread the parent belongs to.
C14_UnsetReportsParentEnd ==
    Done => \A e \in Events : UnsetWithParent(e) => EndOf(e) = EndOf(ParentOf(e))

\* The part of the inheritance that the code does deliver: a finalized event
\* without recorded end reports its parent's end, or its own start when the
\* parent ended before it started.
UnsetFinishedReportsParentEnd ==
    Done => \A e \in Events :
                UnsetWithParent(e) /\ results[e].finished_
                    => EndOf(e) = IF EndOf(ParentOf(e)) >= StartOf(e)
                                    THEN EndOf(ParentOf(e)) ELSE StartOf(e)

\* C19: when build_tree returns every event of its input is finalized,
\* including events with unset end and events attached under a frame of
\* another thread.
C19_AllFinalized ==
    Done => \A e \in Events : results[e].finished_

\* The per-thread open-frame map holds no finalized event.
OpenFramesNotFinalized ==
    \A tid \in DOMAIN stacks :
        stacks[tid] # 0 => ~results[stacks[tid]].finished_

\* push_event gave e its parent in this step.
AttachedNow(e) ==
    /\ results[e].parent_ = 0
    /\ results'[e].parent_ # 0
    /\ results'[e].by = "build"

\* build_tree attaches no child to an event that is already finalized.
NoAttachToFinalized ==
    [][\A e \in Events : AttachedNow(e) => ~results[results'[e].parent_].finished_]_vars

\* C20: in every state of the tree construction each entry of the per-thread
\* open-frame map is an event that is not finalized.
C20_OpenFramesNotFinalized ==
    t_pc \in {"build", "done"} => OpenFramesNotFinalized

(***************************************************************************)
(* ---------------- Claims about reassociation --------------------------- *)
(***************************************************************************)
\* reassociate() has run without a failed assertion.
Reassociated == t_pc \in {"extract", "merge", "sort", "build", "done"}

\* extractEventsFromTrace() has run without a failed assertion.
Extracted == t_pc \in {"merge", "sort", "build", "done"}

\* The activity at place k of the returned trace carries the metadata that
\* passEventsToKineto wrote for the event at place j (from 1) of the results,
\* that is the index j - 1.
CarriesIndexOf(k, j) == trace_activities_[k].metadata = to_string(j - 1)

\* The Results that the merge appended to the drained ones.
NewNodes == {r \in DOMAIN results : r > MergeResults}

\* C15: an external activity whose metadata encodes index i is associated
\* with the i-th event (from 0) of the result list in drain order, and the
\* merge creates no new node for it: new nodes stand for activities without
\* an index only, one each.
C15_IndexReattaches ==
    /\ Reassociated =>
          \A k \in DOMAIN trace_activities_ : \A j \in 1..MergeResults :
              CarriesIndexOf(k, j) =>
                  /\ k \in DOMAIN kineto_events_
                  /\ kineto_events_[k] = j
                  /\ kineto_activity_[j] = k
                  /\ results[j].kind = "TorchOp"
    /\ Extracted =>
          /\ \A k \in DOMAIN kineto_events_ :
                kineto_events_[k] \in NewNodes => trace_activities_[k].metadata = <<>>
          /\ Cardinality(NewNodes)
                = Cardinality({k \in DOMAIN trace_activities_ :
                                  trace_activities_[k].metadata = <<>>
                                  /\ ~trace_activities_[k].cpu})

\* C15's case: getRecords has returned; the activity for the second event came
\* back at another place of the trace and was reattached to the second event,
\* while an activity without index got a new node.
C15_Witness ==
    /\ Done
    /\ NewNodes # {}
    /\ \E k \in DOMAIN trace_activities_ :
          /\ k # 2 /\ CarriesIndexOf(k, 2)
          /\ kineto_events_[k] = 2

(***************************************************************************)
(* ---------------- Claims about reconciliation gaps --------------------- *)
(***************************************************************************)
Acts == DOMAIN trace_activities_
Indexed(k) == trace_activities_[k].metadata # <<>>

\* An activity of a type the profiler passes itself that matches no event.
UnmatchedActivity == \E k \in Acts : trace_activities_[k].cpu /\ ~Indexed(k)

\* Not as many reassociated activities as results.
CountMismatch == MergeResults # Cardinality({k \in Acts : Indexed(k)})

\* Two flow-start activities with one flow id.
IsStartActivity(k) ==
    /\ ~Indexed(k) /\ ~trace_activities_[k].cpu
    /\ trace_activities_[k].flow.type = kLinkAsyncCpuGpu
    /\ trace_activities_[k].flow.start
DuplicateFlowStart ==
    \E k1, k2 \in Acts :
        /\ k1 # k2 /\ IsStartActivity(k1) /\ IsStartActivity(k2)
        /\ trace_activities_[k1].flow.id = trace_activities_[k2].flow.id

\* Faults of a trace other than the three gaps: an index past the end, one
\* index on two activities, a link from a reassociated activity.
OtherFault ==
    \/ \E k \in Acts : trace_activities_[k].metadata = to_string(MergeResults)
    \/ \E k1, k2 \in Acts :
          k1 # k2 /\ Indexed(k1)
          /\ trace_activities_[k1].metadata = trace_activities_[k2].metadata
    \/ \E k \in Acts : Indexed(k) /\ trace_activities_[k].linked # 0

TraceReturned == t_pc \notin {"pass", "stop", "idle"}

GapWarnings ==
    /\ UnmatchedActivity
          => "Detected an event not present in the set of known events" \in t_warn
    /\ CountMismatch => "Failed to recover relationship" \in t_warn
    /\ DuplicateFlowStart => "ROCTracer produced duplicate flow start" \in t_warn

\* C16: an unmatched activity, a count mismatch or a duplicate flow start never
\* aborts getRecords; each is reported as a warning and a tree is returned.
C16_GapsNeverAbort ==
    TraceReturned /\ ~OtherFault
        => /\ t_pc # "abort"
           /\ Done => GapWarnings

\* What the code does deliver: without a duplicate flow start, an unmatched
\* activity and a count mismatch are warned about and getRecords returns.
GapsWithoutDuplicateNeverAbort ==
    TraceReturned /\ ~OtherFault /\ ~DuplicateFlowStart
        => /\ t_pc # "abort"
           /\ Done => GapWarnings

\* With USE_ROCM a duplicate flow start does not abort getRecords.
RocmDuplicateNeverAborts ==
    TraceReturned /\ ~OtherFault /\ use_rocm => t_pc # "abort"

\* With USE_ROCM the duplicate-flow-start warning would tell whether there is
\* one. The code warns when the insertion succeeded, so this fails for a trace
\* with a single flow start.
RocmWarnsOnlyOnDuplicate ==
    Done /\ use_rocm /\ "ROCTracer produced duplicate flow start" \in t_warn
        => DuplicateFlowStart

(***************************************************************************)
(* ---------------- Claims about the input encoder ----------------------- *)
(***************************************************************************)
\* The entry of Inputs an argument stands for: shape, strides, ivalue, dtype,
\* tensor metadata. withShape tells which tensors are given with their shape.
EntryOf(value, withShape) ==
    IF value.kind = "Tensor" /\ withShape
      THEN [shape |-> value.sizes,
            stride |-> IF value.strided THEN value.strides ELSE <<>>,
            ivalue |-> NoIValue, dtype |-> value.dtype,
            metadata |-> <<[dim_ |-> Len(value.sizes), strided |-> value.strided,
                            dtype_ |-> value.dtype]>>]
    ELSE IF value.kind = "Scalar"
      THEN [shape |-> <<>>, stride |-> <<>>, ivalue |-> value, dtype |-> "Scalar",
            metadata |-> <<>>]
    ELSE IF value.kind = "TensorList"
      THEN [shape |-> <<>>, stride |-> <<>>, ivalue |-> NoIValue,
            dtype |-> "TensorList", metadata |-> <<>>]
    ELSE [shape |-> <<>>, stride |-> <<>>, ivalue |-> NoIValue, dtype |-> "",
          metadata |-> <<>>]

\* Every defined tensor is given with its shape.
DefinedTensor(value) == value.kind = "Tensor" /\ value.defined

\* Only a defined tensor that is not nested is given with its shape.
PlainTensor(value) == value.kind = "Tensor" /\ value.defined /\ ~value.nested

\* The k-th returned Inputs, entry by entry.
EntriesOf(k) ==
    [i \in 1..Len(decoded[k].dtypes_) |->
        [shape |-> decoded[k].shapes_[i], stride |-> decoded[k].strides_[i],
         ivalue |-> decoded[k].ivalues_[i], dtype |-> decoded[k].dtypes_[i],
         metadata |-> decoded[k].tensor_metadata_[i]]]

\* All five vectors of the k-th returned Inputs have one length.
OneLength(k) ==
    /\ Len(decoded[k].shapes_) = Len(decoded[k].dtypes_)
    /\ Len(decoded[k].strides_) = Len(decoded[k].dtypes_)
    /\ Len(decoded[k].ivalues_) = Len(decoded[k].dtypes_)
    /\ Len(decoded[k].tensor_metadata_) = Len(decoded[k].dtypes_)

\* The tags one pushed operation takes: one per argument, the inner terminator
\* of each tensor list, the operation's terminator.
TagsOf(values) ==
    Len(values) + Cardinality({i \in DOMAIN values : values[i].kind = "TensorList"}) + 1

RECURSIVE TagsOfFirst(_)
TagsOfFirst(k) == IF k = 0 THEN 0 ELSE TagsOfFirst(k - 1) + TagsOf(pushed[k])

Min(a, b) == IF a < b THEN a ELSE b

\* The getter has consumed the tags of the operations decoded so far.
ConsumedExactly ==
    getter_it.tag_it = 1 + TagsOfFirst(Min(Len(decoded), Len(pushed)))

\* C18 as stated: the k-th call returns one entry per argument of the k-th
\* pushed operation, every tensor with its shape.
C18_DecodeReturnsPushed ==
    ops_pc = "decode" =>
        /\ ConsumedExactly
        /\ \A k \in DOMAIN decoded :
              /\ OneLength(k)
              /\ EntriesOf(k) =
                    IF k <= Len(pushed)
                      THEN [i \in DOMAIN pushed[k] |->
                                EntryOf(pushed[k][i], DefinedTensor(pushed[k][i]))]
                      ELSE <<>>

\* C18: the k-th call of the cursor returns one entry per argument of the k-th
\* pushed operation, in argument order: a defined, non-nested tensor with its
\* shape (and strides when strided), a scalar with its value, a tensor list as
\* a placeholder, undefined and nested tensors and other values as empty
\* entries; it consumes that operation's tags, and a call after the last
\* operation returns an empty set.
C18_DecodeReturnsPushedPlain ==
    ops_pc = "decode" =>
        /\ ConsumedExactly
        /\ \A k \in DOMAIN decoded :
              /\ OneLength(k)
              /\ EntriesOf(k) =
                    IF k <= Len(pushed)
                      THEN [i \in DOMAIN pushed[k] |->
                                EntryOf(pushed[k][i], PlainTensor(pushed[k][i]))]
                      ELSE <<>>

\* C18's case: two operations were pushed, the first with a tensor list
\* followed by a strided tensor of one dimension, the second with a scalar; the
\* getter was called three times.
C18_Witness ==
    /\ ops_pc = "decode"
    /\ Len(pushed) = 2 /\ Len(decoded) = 3
    /\ pushed[1] = <<TensorListValue, TensorValue(<<3>>, TRUE)>>
    /\ \E i \in DOMAIN pushed[2] : pushed[2][i].kind = "Scalar"
    /\ decoded[1].shapes_ = <<<<>>, <<3>>>>
    /\ decoded[3] = EmptyInputs

(***************************************************************************)
(* ---------------- Claims about the drain of operation events ----------- *)
(***************************************************************************)
OpsDone == ops_pc = "done"

\* What the i-th begin_op call captured, or the empty value.
TracedCall(i) == calls[i].scope # "BACKWARD_FUNCTION"
CapturedStack(i) ==
    IF config_.with_stack /\ TracedCall(i) THEN callstackStr(calls[i]) ELSE <<>>
CapturedModules(i) ==
    IF config_.with_modules /\ TracedCall(i) THEN currentModuleHierarchy(calls[i]) ELSE <<>>
CapturedExtraArgs(i) ==
    IF config_.with_flops THEN saveExtraArgs(calls[i]) ELSE <<>>
CapturedInputs(i) ==
    IF config_.report_input_shapes
      THEN input_getter(push(EmptyEncoder, calls[i].inputs), BeginCursor).inputs
      ELSE EmptyInputs

\* The i-th operation event carries the inputs and extra arguments of the
\* i-th call.
InputsAndExtraArgsAligned ==
    OpsDone =>
        /\ Len(ops_out) = Len(calls)
        /\ \A i \in DOMAIN ops_out :
              /\ ops_out[i].inputs_ = CapturedInputs(i)
              /\ ops_out[i].extra_args_ = CapturedExtraArgs(i)

\* The i-th operation event carries the call stack and module hierarchy of
\* the i-th call.
StackAndModulesAligned ==
    OpsDone =>
        \A i \in DOMAIN ops_out :
            /\ ops_out[i].jit_stack_ = CapturedStack(i)
            /\ ops_out[i].jit_modules_ = CapturedModules(i)

\* C17: for every sequence of begin_op calls, scopes and flags, the i-th
\* operation event of the drain carries the call stack, module hierarchy,
\* extra arguments and decoded inputs captured by the i-th call, or empty
\* values when that call captured none.
C17_AuxiliaryDataAligned ==
    InputsAndExtraArgsAligned /\ StackAndModulesAligned

\* What the code does deliver for call stacks and module hierarchies: they
\* are aligned when no call before the event has scope BACKWARD_FUNCTION.
StackAlignedWithoutBackward ==
    OpsDone =>
        \A i \in DOMAIN ops_out :
            (\A j \in 1..i : TracedCall(j))
                => /\ ops_out[i].jit_stack_ = CapturedStack(i)
                   /\ ops_out[i].jit_modules_ = CapturedModules(i)

(***************************************************************************)
(* ---------------- Claims about threads in the tree --------------------- *)
(***************************************************************************)
Building == t_pc \in {"build", "done"}

\* e got its parent from push_event.
AttachedByBuild(e) == ParentOf(e) # 0 /\ results[e].by = "build"

ForwardTidOf(e) == IF results[e].kind = "TorchOp" THEN results[e].forward_tid_ ELSE 0

\* The edge to e's parent stays on e's thread or leads to e's forward thread.
EdgeWithinThread(e) ==
    \/ results[ParentOf(e)].start_tid_ = results[e].start_tid_
    \/ /\ ForwardTidOf(e) # 0
       /\ results[ParentOf(e)].start_tid_ = ForwardTidOf(e)

\* The open-frame entry of thread t is an event of thread t.
OpenFramesOnOwnThread ==
    \A tid \in DOMAIN stacks :
        stacks[tid] # 0 => results[stacks[tid]].start_tid_ = tid

\* C21: every edge created by build_tree joins two events of one thread, or a
\* child with a forward thread id to an event of that thread; the open-frame
\* entry of thread t is an event of thread t.
C21_EdgesWithinThread ==
    Building =>
        /\ \A e \in Events : AttachedByBuild(e) => EdgeWithinThread(e)
        /\ OpenFramesOnOwnThread

\* The edges alone, without the statement about the open-frame map.
EdgesWithinThreadOnly ==
    Building => \A e \in Events : AttachedByBuild(e) => EdgeWithinThread(e)

\* What the code does deliver: without forward thread ids every edge stays on
\* one thread and every open frame is on its own thread.
EdgesWithinThreadWithoutForward ==
    Building /\ (\A e \in Events : ForwardTidOf(e) = 0)
        => /\ \A e \in Events : AttachedByBuild(e) => EdgeWithinThread(e)
           /\ OpenFramesOnOwnThread

(***************************************************************************)
(* ---------------- Claims about the final tensor ids -------------------- *)
(***************************************************************************)
\* The provisional storage clusters that survived pruning.
RetainedClusters == {tensors[j].storage_id_ : j \in DOMAIN tensors}

\* C22: two retained clusters receive the same final id if and only if a chain
\* of equivalence edges links them.
C22_FinalIdsAreComponents ==
    TensorDone =>
        \A a, b \in RetainedClusters :
            id_map[a] = id_map[b] <=> SameGroupChain(a, b)

\* What the code does deliver: clusters with one final id are linked by a chain
\* of equivalence edges.
SameFinalIdOnlyWhenLinked ==
    TensorDone =>
        \A a, b \in RetainedClusters :
            id_map[a] = id_map[b] => SameGroupChain(a, b)

\* The final ids written back.
FinalIdsInUse == {ids[i] : i \in {j \in DOMAIN ids : ids[j] # NoId}}

\* C30: the write-back finds a final id for every record that survived
\* pruning, and the final ids in use are exactly 0..k-1 for some k.
C30_WriteBackNeverMisses ==
    /\ u_pc # "abort"
    /\ u_pc \in {"coalesce", "done"} /\ u_i > Len(unique_pairs)
          => RetainedClusters \subseteq DOMAIN id_map
    /\ TensorDone =>
          /\ \A j \in DOMAIN tensors :
                ids[tensors[j].ref] = id_map[tensors[j].storage_id_]
          /\ FinalIdsInUse = 0..(Cardinality(FinalIdsInUse) - 1)

\* C30's case: the write-back has run on a sequence in which one allocation
\* record was pruned and another retained, and two final ids are in use.
C30_Witness ==
    /\ TensorDone
    /\ Cardinality(FinalIdsInUse) >= 2
    /\ \E a, b \in TensorEvents :
          /\ sorted_results[a].kind = "Allocation" /\ ids[a] = NoId
          /\ sorted_results[b].kind = "Allocation" /\ ids[b] # NoId

(***************************************************************************)
(* ---------------- Claims about merged events in build_tree ------------- *)
(***************************************************************************)
\* An external-activity event that setParents attached and marked finished.
MergeFinalized(k) ==
    /\ results[k].kind = "Kineto" /\ results[k].finished_
    /\ results[k].by = "merge"

\* A step of build_tree leaves k as the merge left it.
LeftAlone(k) ==
    /\ results'[k].parent_ = results[k].parent_
    /\ results'[k].finished_
    /\ \A p \in Events :
          Occurrences(results'[p].children_, k) = Occurrences(results[p].children_, k)
    /\ \A tid \in DOMAIN stacks' : stacks'[tid] # k
    /\ k \notin end_events_'
    /\ t_err' # "push_event: parent set"

\* Every step of the sort and of build_tree leaves the merged events alone.
MergedEventsLeftAlone ==
    t_pc \in {"sort", "build"} => \A k \in Events : MergeFinalized(k) => LeftAlone(k)

\* C23: build_tree leaves the parent link, the finished flag and the child-list
\* membership of every external-activity event finalized by the merge as they
\* are, and never makes such an event an open frame or a pending end.
C23_MergedEventsSkipped == [][MergedEventsLeftAlone]_vars

\* C23's case: getRecords has returned; an event finalized by the merge sits on
\* a thread on which build_tree attached another event.
C23_Witness ==
    /\ Done
    /\ \E k, e \in Events :
          /\ MergeFinalized(k)
          /\ e # k /\ AttachedByBuild(e)
          /\ results[e].start_tid_ = results[k].start_tid_

(***************************************************************************)
(* ---------------- Claims about thread ids after the merge -------------- *)
(***************************************************************************)
\* setParents has just returned: nothing has been sorted or built yet.
JustMerged == t_pc = "sort"

IsKineto(e) == results[e].kind = "Kineto"

\* C24: after the merge no external-activity event keeps the placeholder
\* thread id: one with a parent carries its parent's thread id, one without a
\* parent the id of the thread running the merge.
C24_NoPlaceholderTid ==
    JustMerged =>
        \A e \in Events :
            IsKineto(e) =>
                /\ results[e].start_tid_ # NoTID
                /\ results[e].start_tid_ =
                      IF ParentOf(e) # 0 THEN results[ParentOf(e)].start_tid_
                      ELSE kineto_tid

\* e is on a cycle of parent links.
RECURSIVE AncestorsWithin(_, _)
AncestorsWithin(e, n) ==
    IF n = 0 \/ ParentOf(e) = 0 THEN {}
    ELSE {ParentOf(e)} \cup AncestorsWithin(ParentOf(e), n - 1)
Ancestors(e) == AncestorsWithin(e, Cardinality(Events))
OnCycle(e) == e \in Ancestors(e)

\* What the code does deliver: an external-activity event whose parent links
\* lead to a root carries the thread id of its parent, or of the merging thread.
NoPlaceholderTidBelowRoots ==
    JustMerged =>
        \A e \in Events :
            IsKineto(e) /\ (\A a \in Ancestors(e) \cup {e} : ~OnCycle(a)) =>
                /\ results[e].start_tid_ # NoTID
                /\ results[e].start_tid_ =
                      IF ParentOf(e) # 0 THEN results[ParentOf(e)].start_tid_
                      ELSE kineto_tid

(***************************************************************************)
(* ---------------- Claims about the shape of the result ----------------- *)
(***************************************************************************)
\* Every event with a parent is once in that parent's child list and in no
\* other, and every entry of a child list has the list's owner as parent.
EdgesConsistent ==
    /\ \A e \in Events : \A p \in Events :
          Occurrences(ChildrenOf(p), e) = IF ParentOf(e) = p THEN 1 ELSE 0
    /\ \A p \in Events : \A j \in 1..Len(ChildrenOf(p)) :
          ParentOf(ChildrenOf(p)[j]) = p

\* Following parent links from any event ends at an event without parent.
ReachesRoot == \A e \in Events : ~OnCycle(e)

\* C29: after getRecords the parent relation is a forest, for every external
\* trace.
C29_ParentRelationIsForest ==
    Done => EdgesConsistent /\ ReachesRoot

\* What the code does deliver: parent links and child lists agree.
ParentAndChildListsAgree == Done => EdgesConsistent

(***************************************************************************)
(* ---------------- Claims about push_event ------------------------------ *)
(***************************************************************************)
\* This step is push_event of the next event, which is accepted.
AcceptsNext ==
    /\ t_pc = "build" /\ t_i' = t_i + 1 /\ t_pc' # "abort"
    /\ ~(IsKineto(out[t_i]) /\ results[out[t_i]].finished_)

OwnFrame(e) == stacks[results[e].start_tid_]
ForwardFrame(e) == IF ForwardTidOf(e) # 0 THEN stacks[ForwardTidOf(e)] ELSE 0

\* e becomes the last child of p, and of nobody else.
AttachedUnder(e, p) ==
    /\ results'[e].parent_ = p
    /\ results'[p].children_ = Append(results[p].children_, e)
    /\ \A q \in Events \ {p} : Occurrences(results'[q].children_, e) = 0

\* e becomes a root.
MadeRoot(e) ==
    /\ results'[e].parent_ = 0
    /\ \A q \in Events : Occurrences(results'[q].children_, e) = 0

\* An accepted event goes under its own thread's frame, else under its forward
\* thread's frame, else becomes a root.
PushAttachesInOrder ==
    AcceptsNext =>
        LET e == out[t_i]
        IN  IF OwnFrame(e) # 0 THEN AttachedUnder(e, OwnFrame(e))
            ELSE IF ForwardFrame(e) # 0 THEN AttachedUnder(e, ForwardFrame(e))
            ELSE MadeRoot(e)

\* C25: build_tree attaches an accepted event under the open frame of its own
\* thread if there is one; only otherwise, and with a nonzero forward thread
\* id, under the open frame of the forward thread; with neither frame the
\* event is a root and in no child list.
C25_OwnThreadFirst == [][PushAttachesInOrder]_vars

\* C25's case: getRecords has returned; one event with a forward thread id was
\* attached under a frame of its own thread, another under a frame of its
\* forward thread, and a third with a forward thread id is a root.
C25_Witness ==
    /\ Done
    /\ \E a, b, c \in Events :
          /\ ForwardTidOf(a) # 0 /\ ParentOf(a) = 0 /\ ~IsKineto(a)
          /\ ForwardTidOf(b) # 0 /\ AttachedByBuild(b)
          /\ results[ParentOf(b)].start_tid_ = ForwardTidOf(b)
          /\ results[b].start_tid_ # ForwardTidOf(b)
          /\ ForwardTidOf(c) # 0 /\ AttachedByBuild(c) /\ ParentOf(c) = b
          /\ results[c].start_tid_ = results[b].start_tid_

(***************************************************************************)
(* ---------------- Claims about unmatched activities -------------------- *)
(***************************************************************************)
\* The activity at place k matches no internal event: lookup() gives up.
Unmatched(k) == trace_activities_[k].metadata = <<>>

\* No Result stands for the activity at place k, and a node whose activity
\* names k as its linked activity holds no linked Result.
NoNodeFor(k) ==
    /\ k \notin DOMAIN kineto_events_
    /\ \A j \in DOMAIN kineto_activity_ : kineto_activity_[j] # k
    /\ \A l \in DOMAIN kineto_events_ :
          (trace_activities_[l].linked = k /\ IsKineto(kineto_events_[l]))
              => results[kineto_events_[l]].linked_activity_ = 0

\* One new Result stands for the activity at place k, listed once, and for no
\* other activity.
OneNewNodeFor(k) ==
    /\ k \in DOMAIN kineto_events_
    /\ kineto_events_[k] \in NewNodes
    /\ IsKineto(kineto_events_[k])
    /\ Occurrences(out, kineto_events_[k]) = 1
    /\ \A l \in DOMAIN kineto_events_ : l # k => kineto_events_[l] # kineto_events_[k]

\* C26: an external activity that matches no internal event gets no node and
\* is nobody's parent when its type is one of the four CPU types, and gets
\* exactly one new node in the result list with any other type, however often
\* it is visited or named as a linked activity.
C26_UnmatchedActivities ==
    Extracted =>
        /\ \A k \in Acts :
              Unmatched(k) =>
                  IF trace_activities_[k].cpu THEN NoNodeFor(k) ELSE OneNewNodeFor(k)
        /\ Len(results) = MergeResults
              + Cardinality({k \in Acts : Unmatched(k) /\ ~trace_activities_[k].cpu})
        /\ Len(out) = Len(results)

\* C26's case: getRecords has returned; an unmatched device activity was
\* first reached as the linked activity of another one and then visited by the
\* loop, and it names an unmatched CPU activity as its linked activity.
C26_Witness ==
    /\ Done
    /\ \E k, l, c \in Acts :
          /\ k < l
          /\ Unmatched(k) /\ ~trace_activities_[k].cpu /\ trace_activities_[k].linked = l
          /\ Unmatched(l) /\ ~trace_activities_[l].cpu /\ trace_activities_[l].linked = c
          /\ Unmatched(c) /\ trace_activities_[c].cpu
          /\ results[kineto_events_[k]].linked_activity_ = kineto_events_[l]

(***************************************************************************)
(* ---------------- Claims about autograd plumbing ----------------------- *)
(***************************************************************************)
\* The calls i and i + 1 are an evaluate_function annotation of scope FUNCTION
\* followed by a BACKWARD_FUNCTION.
MatchingPair(i) ==
    /\ i < Len(calls)
    /\ calls[i].scope = "FUNCTION"
    /\ calls[i].evaluate
    /\ calls[i + 1].scope = "BACKWARD_FUNCTION"

\* The basic fields the i-th event is expected to leave the drain with.
PlumbedFields(i) ==
    IF MatchingPair(i)
      THEN [sequence_number_ |-> seqNr(calls[i + 1]),
            forward_tid_ |-> forwardThreadId(calls[i + 1]),
            scope_ |-> calls[i].scope, evaluate |-> calls[i].evaluate]
      ELSE [sequence_number_ |-> seqNr(calls[i]),
            forward_tid_ |-> forwardThreadId(calls[i]),
            scope_ |-> calls[i].scope, evaluate |-> calls[i].evaluate]

\* C27: in the drain of a subqueue, the first event of every adjacent pair
\* (FUNCTION named evaluate_function, BACKWARD_FUNCTION) takes the sequence
\* number and forward thread id of the second; nothing else changes, and a
\* subqueue of zero or one event is left as it was.
C27_AutogradInfoPlumbed ==
    OpsDone =>
        /\ Len(ops_out) = Len(calls)
        /\ \A i \in DOMAIN ops_out : ops_out[i].basic_fields_ = PlumbedFields(i)

\* C27's case: three events were drained; the first two are a matching pair
\* and the first one left with the second one's sequence number and forward
\* thread id, while the last two are no matching pair.
C27_Witness ==
    /\ OpsDone
    /\ Len(calls) = 3
    /\ MatchingPair(1)
    /\ calls[3].scope = "FUNCTION" /\ calls[3].evaluate
    /\ ops_out[1].basic_fields_.sequence_number_ = seqNr(calls[2])
    /\ ops_out[1].basic_fields_.forward_tid_ = forwardThreadId(calls[2])
    /\ ops_out[1].basic_fields_.sequence_number_ # seqNr(calls[1])
    /\ ops_out[3].basic_fields_.sequence_number_ = seqNr(calls[3])

(***************************************************************************)
(* ---------------- Claims about the structural checks of build_tree ----- *)
(***************************************************************************)
\* The end time of e is unset or not before its start.
EndNotBeforeStart(e) ==
    IF results[e].kind = "TorchOp"
      THEN \/ results[e].end_time_ns_ = UnsetTime
           \/ results[e].end_time_ns_ >= results[e].start_time_ns_
      ELSE results[e].duration_us_ >= 0

\* The checks of pop_event and the first check of mark_finished.
StructuralChecks ==
    {"mark_finished: finished twice", "pop_event: stacks.at", "pop_event: parent expired"}

\* C28: on a start-sorted input whose end times are unset or not before the
\* start, over any threads and forward thread ids, build_tree fails no
\* structural check: no event is finalized twice, pop_event finds a frame for
\* the thread of the event it closes, and the walk up the parent links reaches
\* that event.
C28_NoStructuralFailure ==
    (\A e \in Events : EndNotBeforeStart(e)) => t_err \notin StructuralChecks

\* C28's case: getRecords has returned; an event without end time was
\* finalized by the walk of its parent's pop_event, after an event of another
\* thread had been attached under it through its forward thread id.
C28_Witness ==
    /\ Done
    /\ \A e \in Events : EndNotBeforeStart(e) /\ ~IsKineto(e)
    /\ \E a, b, c \in Events :
          /\ AttachedByBuild(b) /\ ParentOf(b) = a
          /\ results[b].start_tid_ = results[a].start_tid_
          /\ results[b].end_time_ns_ = UnsetTime /\ results[b].finished_
          /\ AttachedByBuild(c) /\ ParentOf(c) = b
          /\ results[c].start_tid_ # results[b].start_tid_
          /\ results[a].finished_ /\ results[c].finished_

====
